---- MODULE Spec2Model ----
(***************************************************************************)
(* OptimaDB: a typed data-access layer over an embedded SQLite connection. *)
(*                                                                         *)
(* The model follows one declared table (Name) on one connection through   *)
(* the life of a database handle: the constructor (InitTable followed by   *)
(* the start-up MigrateSchema), explicit migrations with a rename map,     *)
(* Insert / InsertMany / Update / Delete and Batch, reads with a filter    *)
(* (query, compiled by buildWhereClause and evaluated as the engine        *)
(* evaluates the clause), reads extended with the rows of a sibling table  *)
(* (SchemaRef holds the sibling's declaration, extendRelationshipsMap the  *)
(* edges InitTable recorded) and the change bookkeeping                    *)
(* of hybrid mode (ChangeConfig).                                          *)
(*                                                                         *)
(* Three revisions of the table runtime live in the repository and are     *)
(* modelled, selected by the variable impl:                                *)
(*   "OptimaTable"  src/src/database.ts, fields of src/unnamed/part_001    *)
(*                  (methods isNotNullField, hasDefaultValue, ...)         *)
(*   "OptimaTB"     src/src/table.ts, fields of src/src/schema.ts:227      *)
(*                  (plain properties NotNull, Default, Check, ...)        *)
(*   "OptimaTB/part_002"  src/unnamed/part_002, the Json-aware filter      *)
(*                  compiler, fields and formatters of schema.ts:854       *)
(*                                                                         *)
(* The storage engine is SQLite as bun:sqlite drives it.  Its statements   *)
(* are modelled by what the engine documents for them: DDL is              *)
(* transactional, BEGIN inside a transaction is an error, a failing        *)
(* statement is undone alone and leaves the transaction open, and          *)
(* PRAGMA foreign_keys is a no-op while a transaction is open.             *)
(*                                                                         *)
(* Values are strings: JavaScript values on the application side           *)
(* ("undefined", "null", the numbers "0" "1" "2", the string "x") and      *)
(* SQL values on the storage side ("null" for NULL, the integers           *)
(* "0" "1" "2", the text "x").  Objects, arrays and dates are nodes in a   *)
(* filter and, where a variable holds them, the text of the node marked    *)
(* as a live value.  Declared fields carry no PRIMARY KEY or UNIQUE        *)
(* constraint.                                                             *)
(***************************************************************************)
EXTENDS Integers, Sequences, FiniteSets, TLC

VARIABLES impl, Schema, conn, constructed, batch, last, query, SchemaRef, ChangeConfig,
          extendRelationshipsMap

vars == <<impl, Schema, conn, constructed, batch, last, query, SchemaRef, ChangeConfig,
          extendRelationshipsMap>>

\* ------------------------------------------------------------------ bounds
MaxRows == 2
MaxBatchOps == 2
MaxChanges == 3
MaxSiblingRows == 2

\* ------------------------------------------------------------------ values
NULL == "null"
UNDEFINED == "undefined"
NaN == "NaN"
Numbers == {"0", "1", "2"}
Strings == {"x"}
SqlValues == {NULL} \cup Numbers \cup Strings

\* ------------------------------------------------------- structured values
\* A JavaScript value with structure (a filter object, an operator object, an
\* array, a Date, a literal) is a node: k is the key it is stored under in
\* its parent ("" at the top), t its kind, s its scalar text and e the
\* sequence of its members in Object.entries order.
Booleans == {"true", "false"}
Iso == "2020-01-01T00:00:00.000Z"
Scalar(k, v) == [k |-> k, t |-> "scalar", s |-> v, e |-> <<>>]
ObjectOf(k, entries) == [k |-> k, t |-> "object", s |-> "", e |-> entries]
ArrayOf(k, elements) == [k |-> k, t |-> "array", s |-> "", e |-> elements]
DateOf(k, iso) == [k |-> k, t |-> "date", s |-> iso, e |-> <<>>]
Keyed(k, node) == [node EXCEPT !.k = k]

\* The scalar texts that are not JavaScript strings.
Primitives == Numbers \cup Booleans \cup {NULL, UNDEFINED, NaN}

\* JSON.stringify: numbers, booleans and null as they are, strings and Dates
\* quoted, arrays and objects member by member.
RECURSIVE JSONstringify(_)
RECURSIVE JSONmembers(_, _)
JSONmembers(members, keyed) ==
    IF members = <<>> THEN ""
    ELSE LET m == Head(members)
             text == (IF keyed THEN "\"" \o m.k \o "\":" ELSE "") \o JSONstringify(m)
         IN IF Len(members) = 1 THEN text
            ELSE text \o "," \o JSONmembers(Tail(members), keyed)

JSONstringify(node) ==
    CASE node.t = "scalar" ->
           IF node.s \notin Primitives THEN "\"" \o node.s \o "\"" ELSE node.s
      [] node.t = "date"   -> "\"" \o node.s \o "\""
      [] node.t = "array"  -> "[" \o JSONmembers(node.e, FALSE) \o "]"
      [] node.t = "object" -> "{" \o JSONmembers(node.e, TRUE) \o "}"

\* The literals a Json, Array or DateTime column is given.
ObjF1 == ObjectOf("", <<Scalar("f", "1")>>)
ObjF1G2 == ObjectOf("", <<Scalar("f", "1"), Scalar("g", "2")>>)
Arr0 == ArrayOf("", <<>>)
Arr1 == ArrayOf("", <<Scalar("", "1")>>)
Arr12 == ArrayOf("", <<Scalar("", "1"), Scalar("", "2")>>)
Date1 == DateOf("", Iso)
Literals == {ObjF1, ObjF1G2, Arr0, Arr1, Arr12, Date1}

\* A structured value where the program holds it in a variable, a property
\* or a bound parameter: a scalar is its text, a Date is "Date(iso)", an
\* array or object is "#" followed by its JSON text (so that the live value
\* and the string holding its serialisation differ).
JsValue(node) ==
    CASE node.t = "scalar" -> node.s
      [] node.t = "date"   -> "Date(" \o node.s \o ")"
      [] OTHER             -> "#" \o JSONstringify(node)

JsDates == {JsValue(n) : n \in {m \in Literals : m.t = "date"}}
JsArrays == {JsValue(n) : n \in {m \in Literals : m.t = "array"}}
JsObjects == {JsValue(n) : n \in {m \in Literals : m.t = "object"}}
NodeOfValue(v) == CHOOSE n \in Literals : JsValue(n) = v

\* typeof value === "string".
IsString(v) == v \notin Primitives \cup JsDates \cup JsArrays \cup JsObjects

\* JSON.parse of a stored text: the literal it serialises, or a SyntaxError.
Parsed == {n \in Literals : n.t \in {"array", "object"}}
                \cup {Scalar("", v) : v \in Numbers \cup Booleans \cup Strings \cup {NULL, Iso}}
JSONparse(text) ==
    IF \E n \in Parsed : JSONstringify(n) = text
    THEN JsValue(CHOOSE n \in Parsed : JSONstringify(n) = text)
    ELSE "SyntaxError"

Name == "T"
tempName == "__tmp__T"
\* A sibling table whose field F may reference the table, and its
\* temporary table.
Sibling == "S"
tempSibling == "__tmp__S"
TableNames == {Name, tempName, Sibling, tempSibling}
Cols == {"A", "B", "C"}

\* ------------------------------------------------------------------ fields
\* Check is the field's custom predicate: "none" or "positive" (v => v > 0).
NoReference == [TableName |-> NULL, Field |-> NULL, Type |-> NULL]
Field(type, notNull, default, check) ==
    [Type |-> type, NotNull |-> notNull, Default |-> default, Check |-> check,
     Reference |-> NoReference]

CheckPredicate(check, value) ==
    IF check = "positive" THEN value \in {"1", "2"} ELSE TRUE

TypeChecker(value, FieldType) ==
    CASE FieldType = "INT"  -> value \in Numbers
      [] FieldType = "TEXT" -> value \in Strings
      [] OTHER -> FALSE

\* The declared schemas the handle may be constructed with.
\* SchemaAC follows the repository's own declarations (ID: Int({default: 1,
\* notNull: true}), Likes: Int({default: 0})).
SchemaAC == [c \in {"A", "C"} |->
               IF c = "A" THEN Field("INT", TRUE, "1", "none")
                          ELSE Field("INT", FALSE, "0", "none")]
SchemaAB == [c \in {"A", "B"} |->
               IF c = "A" THEN Field("INT", FALSE, NULL, "positive")
                          ELSE Field("TEXT", FALSE, "x", "none")]
SchemaCA == [c \in {"A", "C"} |->
               IF c = "A" THEN Field("INT", FALSE, NULL, "none")
                          ELSE Field("INT", TRUE, NULL, "none")]
DeclaredSchemas == {SchemaAC, SchemaAB, SchemaCA}

\* Schemas with a typed column B next to the integer column A.
SchemaTyped(type) ==
    [c \in {"A", "B"} |->
       IF c = "A" THEN Field("INT", FALSE, NULL, "none")
                  ELSE Field(type, FALSE, NULL, "none")]
TypedSchemas == {SchemaTyped(type) : type \in {"INT", "JSON", "ARRAY", "BOOLEAN", "DATETIME"}}

ObjectKeys(obj) == DOMAIN obj

\* field.isNotNullField?.(): the method exists on the fields of part_001 only;
\* on a field of schema.ts:227 the optional call yields undefined.
isNotNullField(variant, field) ==
    IF variant = "OptimaTable" THEN field.NotNull = TRUE ELSE FALSE

\* Mutant: Insert treats no field as NOT NULL.
InsertNotNull_Never(variant, field) == FALSE

\* Insert's notNull: isNotNullField?.() === true (database.ts:814),
\* field["NotNull"] (table.ts:322).
InsertNotNull(variant, field) ==
    IF variant = "OptimaTable" THEN isNotNullField(variant, field)
    ELSE field.NotNull

hasDefaultValue(field) == field.Default # NULL /\ field.Default # UNDEFINED

\* The revision of the table runtime kept as src/unnamed/part_002 (its where
\* compiler knows Json and Array columns), with the fields and formatters of
\* schema.ts:854.
Part002 == "OptimaTB/part_002"
Revisions == {"OptimaTable", "OptimaTB", Part002}

\* value ? 1 : 0.
Truthy(value) == value \notin {"0", "false", NaN, NULL, UNDEFINED, ""}

\* String(value) of a value that is not a Date.
StringOf(value) ==
    IF value \in JsObjects THEN "[object Object]"
    ELSE IF value \in JsArrays THEN JSONmembers(NodeOfValue(value).e, FALSE)
    ELSE value

\* applyFormatIn: Integer fields are truncated / Number()-converted by the
\* fields of part_001 and by schema.ts:988, and passed through unchanged by
\* schema.ts:435; Boolean becomes 1 / 0, Json and Array a JSON text unless the
\* value is a string already, DateTime an ISO text; Text is passed through.
applyFormatIn(variant, field, value) ==
    IF value = UNDEFINED THEN UNDEFINED
    ELSE IF value = NULL THEN NULL
    ELSE IF field.Type = "BOOLEAN" THEN (IF Truthy(value) THEN "1" ELSE "0")
    ELSE IF field.Type = "INT" /\ variant # "OptimaTB"
         THEN (IF value \in Numbers THEN value
               ELSE IF value \in Booleans THEN (IF value = "true" THEN "1" ELSE "0")
               ELSE NaN)
    ELSE IF field.Type \in {"JSON", "ARRAY"}
         THEN (IF IsString(value) \/ value \in Primitives THEN value
               ELSE JSONstringify(NodeOfValue(value)))
    ELSE IF field.Type = "DATETIME"
         THEN (IF value \in JsDates THEN NodeOfValue(value).s ELSE StringOf(value))
    ELSE value

\* How bun:sqlite binds a JavaScript value: undefined and NaN arrive as NULL.
Bind(value) ==
    IF value \in {UNDEFINED, NULL, NaN} THEN NULL
    ELSE IF value \in Booleans THEN (IF value = "true" THEN "1" ELSE "0")
    ELSE value

\* Mutant: the declared default is ignored and NULL is selected.
defaultLiteralForField_AlwaysNull(variant, field) == NULL

\* defaultLiteralForField: the value of the SQL literal selected for a column
\* the old table does not have.
defaultLiteralForField(variant, field) ==
    IF ~hasDefaultValue(field) THEN NULL
    ELSE LET formatted == applyFormatIn(variant, field, field.Default)
         IN IF formatted = NULL \/ formatted = UNDEFINED THEN NULL
            ELSE Bind(formatted)

\* The DEFAULT clause FieldToSQL / toSQL emits (none when Default is null).
FieldDefaultSQL(field) == IF field.Default = NULL THEN NULL ELSE field.Default

\* ------------------------------------------------------------------ engine
NoTable == [exists |-> FALSE, cols |-> {}, nn |-> {}, dflt |-> <<>>,
            chk |-> <<>>, rows |-> <<>>]

\* The CHECK clause of a column: toSQL of part_001 emits the field's check,
\* FieldToSQL of schema.ts:357 emits none.
FieldCheckSQL(variant, field) ==
    IF variant = "OptimaTable" THEN field.Check ELSE "none"

\* The table a CREATE TABLE built from the declared schema produces.
DeclaredTable(variant, schema) ==
    [exists |-> TRUE,
     cols   |-> ObjectKeys(schema),
     nn     |-> {c \in ObjectKeys(schema) : schema[c].NotNull},
     dflt   |-> [c \in ObjectKeys(schema) |-> FieldDefaultSQL(schema[c])],
     chk    |-> [c \in ObjectKeys(schema) |-> FieldCheckSQL(variant, schema[c])],
     rows   |-> <<>>]

Ok(c)  == [c |-> c, err |-> FALSE]
Err(c) == [c |-> c, err |-> TRUE]
Log(c, stmt) == [c EXCEPT !.log = Append(@, stmt)]

\* Mutant: BEGIN inside a transaction is accepted.
Begin_Nests(c) == Ok([Log(c, "BEGIN") EXCEPT !.inTxn = TRUE])

Begin(c) ==
    IF c.inTxn THEN Err(Log(c, "BEGIN"))
    ELSE Ok([Log(c, "BEGIN") EXCEPT !.inTxn = TRUE, !.snap = c.tables])

Commit(c) ==
    IF ~c.inTxn THEN Err(Log(c, "COMMIT"))
    ELSE Ok([Log(c, "COMMIT") EXCEPT !.inTxn = FALSE, !.snap = c.tables])

Rollback(c) ==
    IF ~c.inTxn THEN Err(Log(c, "ROLLBACK"))
    ELSE Ok([Log(c, "ROLLBACK") EXCEPT !.inTxn = FALSE, !.tables = c.snap])

\* PRAGMA foreign_keys = ON|OFF: ignored by the engine inside a transaction.
PragmaForeignKeys(c, on) ==
    LET l == Log(c, IF on THEN "PRAGMA foreign_keys = ON"
                          ELSE "PRAGMA foreign_keys = OFF")
    IN IF c.inTxn THEN l ELSE [l EXCEPT !.foreign_keys = on]

\* Outside a transaction every statement commits on its own.
AutoCommit(c) == IF c.inTxn THEN c ELSE [c EXCEPT !.snap = c.tables]

CreateTable(c, name, def, fails) ==
    IF fails \/ c.tables[name].exists THEN Err(Log(c, "CREATE TABLE"))
    ELSE Ok(AutoCommit([Log(c, "CREATE TABLE") EXCEPT !.tables[name] = def]))

CreateTableIfNotExists(c, name, def) ==
    IF c.tables[name].exists THEN Ok(Log(c, "CREATE TABLE IF NOT EXISTS"))
    ELSE Ok(AutoCommit([Log(c, "CREATE TABLE IF NOT EXISTS")
                          EXCEPT !.tables[name] = def]))

DropTableIfExists(c, name, fails) ==
    IF fails THEN Err(Log(c, "DROP TABLE"))
    ELSE Ok(AutoCommit([Log(c, "DROP TABLE") EXCEPT !.tables[name] = NoTable]))

AlterTableRename(c, from, to, fails) ==
    IF fails \/ ~c.tables[from].exists \/ c.tables[to].exists
    THEN Err(Log(c, "ALTER TABLE RENAME"))
    ELSE Ok(AutoCommit([Log(c, "ALTER TABLE RENAME")
                          EXCEPT !.tables[to] = c.tables[from],
                                 !.tables[from] = NoTable]))

\* NOT NULL and CHECK constraints of table t on the rows given.
ViolatesConstraints(t, rows) ==
    \E i \in 1..Len(rows) :
        \/ \E col \in t.nn : rows[i][col] = NULL
        \/ \E col \in t.cols : /\ rows[i][col] # NULL
                                /\ ~CheckPredicate(t.chk[col], rows[i][col])

\* INSERT INTO target (cols) SELECT exprs FROM source; exprs[col] is either
\* <<"col", old>> (a column of source) or <<"lit", v>> (a literal).
InsertSelect(c, target, source, exprs, fails) ==
    LET t == c.tables[target]
        s == c.tables[source]
        copied == [i \in 1..Len(s.rows) |->
                     [col \in t.cols |->
                        IF exprs[col][1] = "col" THEN s.rows[i][exprs[col][2]]
                        ELSE exprs[col][2]]]
    IN IF fails \/ ~t.exists \/ ~s.exists \/ ViolatesConstraints(t, copied)
       THEN Err(Log(c, "INSERT SELECT"))
       ELSE Ok(AutoCommit([Log(c, "INSERT SELECT")
                             EXCEPT !.tables[target].rows = t.rows \o copied]))

\* --------------------------------------------------------------- migration
tableExists(c) == c.tables[Name].exists

\* PRAGMA table_info: the names of the physical columns ([] when no table).
getExistingColumns(c) == IF ~tableExists(c) THEN {} ELSE c.tables[Name].cols

\* The rename map is a function old name -> new name.
oldToNewGet(renameColumns, n) ==
    IF n \in DOMAIN renameColumns THEN renameColumns[n] ELSE n

\* Mutant: the rename map is not consulted when the columns are copied.
newToOldGet_Ignored(renameColumns, n) == n

newToOldGet(renameColumns, n) ==
    IF \E o \in DOMAIN renameColumns : renameColumns[o] = n
    THEN CHOOSE o \in DOMAIN renameColumns : renameColumns[o] = n
    ELSE n

normalizedExistingNames(existingNames, renameColumns) ==
    {oldToNewGet(renameColumns, n) : n \in existingNames}

\* Mutant: the unconditional "|| true" is left out, so matching sets skip the rebuild.
requiresRebuild_OnlyOnDifference(existingNames, desiredColumns, renameColumns) ==
    LET normalized == normalizedExistingNames(existingNames, renameColumns)
    IN \/ \E n \in desiredColumns : n \notin normalized
       \/ \E n \in normalized : n \notin desiredColumns

requiresRebuild(existingNames, desiredColumns, renameColumns) ==
    LET normalized == normalizedExistingNames(existingNames, renameColumns)
        differs == \/ \E n \in desiredColumns : n \notin normalized
                   \/ \E n \in normalized : n \notin desiredColumns
    IN differs \/ TRUE

\* Mutant: every column is filled with a NULL literal, no column is copied.
selectExprs_CopiesNothing(variant, schema, existingNames, renameColumns) ==
    [newCol \in ObjectKeys(schema) |-> <<"lit", NULL>>]

\* The column copy mapping: for each declared column the old column it is
\* read from, or the default literal.
selectExprs(variant, schema, existingNames, renameColumns) ==
    [newCol \in ObjectKeys(schema) |->
        LET mappedOld == newToOldGet(renameColumns, newCol)
        IN IF mappedOld \in existingNames
           THEN <<"col", mappedOld>>
           ELSE <<"lit", defaultLiteralForField(variant, schema[newCol])>>]

\* Mutant: the temporary table is created without the column C.
buildCreateSQLFor_WithoutC(variant, schema) ==
    DeclaredTable(variant, [c \in ObjectKeys(schema) \ {"C"} |-> schema[c]])

\* buildCreateSQLFor(name): CREATE TABLE with one definition per declared
\* column.
buildCreateSQLFor(variant, schema) == DeclaredTable(variant, schema)

\* Mutant: the physical table is dropped before its rows are copied.
RebuildBody_DropsBeforeCopy(variant, schema, c, existingNames, renameColumns, fail) ==
    LET s1 == PragmaForeignKeys(c, FALSE)
        s2 == CreateTable(s1, tempName, buildCreateSQLFor(variant, schema), fail = "create")
        s3 == DropTableIfExists(s2.c, Name, fail = "drop")
        s4 == InsertSelect(s3.c, tempName, Name,
                           selectExprs(variant, schema, existingNames, renameColumns),
                           fail = "copy")
    IN IF s2.err THEN s2 ELSE IF s3.err THEN s3 ELSE s4

\* The try block of the rebuild; fail names the step the engine rejects.
RebuildBody(variant, schema, c, existingNames, renameColumns, fail) ==
    LET s1 == PragmaForeignKeys(c, FALSE)
        s2 == CreateTable(s1, tempName, buildCreateSQLFor(variant, schema), fail = "create")
        s3 == IF existingNames # {}
              THEN InsertSelect(s2.c, tempName, Name,
                                selectExprs(variant, schema, existingNames, renameColumns),
                                fail = "copy")
              ELSE Ok(s2.c)
        s4 == DropTableIfExists(s3.c, Name, fail = "drop")
        s5 == AlterTableRename(s4.c, tempName, Name, fail = "rename")
        s6 == PragmaForeignKeys(s5.c, TRUE)
        s7 == Commit(s6)
    IN IF s2.err THEN s2
       ELSE IF s3.err THEN s3
       ELSE IF s4.err THEN s4
       ELSE IF s5.err THEN s5
       ELSE s7

\* Mutant: the catch block forgets the ROLLBACK.
MigrateCatch_NoRollback(c) == PragmaForeignKeys(c, TRUE)

\* The catch block: ROLLBACK and PRAGMA foreign_keys = ON, each in its own
\* try/catch, then the error is thrown again.
MigrateCatch(c) == PragmaForeignKeys(Rollback(c).c, TRUE)

MigrateSchema(variant, schema, c, renameColumns, fail) ==
    LET existingNames == getExistingColumns(c)
        desiredColumns == ObjectKeys(schema)
    IN IF ~tableExists(c)
       THEN LET r == CreateTable(c, Name, buildCreateSQLFor(variant, schema), FALSE)
            IN [c |-> r.c, raised |-> r.err]
       ELSE IF ~requiresRebuild(existingNames, desiredColumns, renameColumns)
       THEN [c |-> c, raised |-> FALSE]
       ELSE LET b == Begin(c)
            IN IF b.err THEN [c |-> b.c, raised |-> TRUE]
               ELSE LET body == RebuildBody(variant, schema, b.c, existingNames,
                                            renameColumns, fail)
                    IN IF body.err
                       THEN [c |-> MigrateCatch(body.c), raised |-> TRUE]
                       ELSE [c |-> body.c, raised |-> FALSE]

\* InitTable: CREATE TABLE IF NOT EXISTS with the declared schema.
InitTable(variant, schema, c) ==
    CreateTableIfNotExists(c, Name, DeclaredTable(variant, schema)).c

\* -------------------------------------------------------------------- CRUD
\* A filter is {} (NoWhere) or {key: value} with a scalar or null value.
NoWhere == [key |-> "", value |-> UNDEFINED]
ColumnWhere(col, v) == [key |-> col, value |-> v]

\* buildWhereClause followed by the engine's evaluation of the clause on a
\* row: no clause, "col" IS NULL, or "col" = ? with the formatted parameter.
WhereMatches(variant, schema, where, row) ==
    IF where.key = "" THEN TRUE
    ELSE IF where.key \notin DOMAIN row THEN FALSE
    ELSE IF where.value = NULL THEN row[where.key] = NULL
    ELSE LET param == Bind(applyFormatIn(variant, schema[where.key], where.value))
         IN param # NULL /\ row[where.key] = param

\* INSERT INTO Name (columns) VALUES (?...): prepare rejects an empty column
\* list and unknown columns; omitted columns take the column default.
EngineInsert(c, columns, params) ==
    LET t == c.tables[Name]
        row == [col \in t.cols |->
                  IF col \in columns THEN params[col] ELSE t.dflt[col]]
    IN IF ~t.exists \/ columns = {} \/ ~(columns \subseteq t.cols)
          \/ ViolatesConstraints(t, <<row>>)
       THEN Err(Log(c, "INSERT"))
       ELSE Ok(AutoCommit([Log(c, "INSERT")
                             EXCEPT !.tables[Name].rows = Append(t.rows, row)]))

EngineUpdate(c, columns, params, variant, schema, where) ==
    LET t == c.tables[Name]
        updated == [i \in 1..Len(t.rows) |->
                      IF WhereMatches(variant, schema, where, t.rows[i])
                      THEN [col \in t.cols |->
                              IF col \in columns THEN params[col]
                              ELSE t.rows[i][col]]
                      ELSE t.rows[i]]
    IN IF ~t.exists \/ ~(columns \subseteq t.cols) \/ ViolatesConstraints(t, updated)
       THEN Err(Log(c, "UPDATE"))
       ELSE Ok(AutoCommit([Log(c, "UPDATE") EXCEPT !.tables[Name].rows = updated]))

EngineDelete(c, variant, schema, where) ==
    LET t == c.tables[Name]
        NotMatches(r) == ~WhereMatches(variant, schema, where, r)
    IN IF ~t.exists THEN Err(Log(c, "DELETE"))
       ELSE Ok(AutoCommit([Log(c, "DELETE")
                             EXCEPT !.tables[Name].rows = SelectSeq(t.rows, NotMatches)]))

\* The NOT NULL loop at the head of Insert.
InsertRejects(variant, schema, Values) ==
    \E key \in ObjectKeys(schema) :
        /\ InsertNotNull(variant, schema[key])
        /\ \/ key \notin DOMAIN Values
           \/ Values[key] = NULL
           \/ Values[key] = UNDEFINED

Insert(variant, schema, c, Values) ==
    IF InsertRejects(variant, schema, Values)
    THEN [c |-> c, raised |-> TRUE]
    ELSE LET columns == ObjectKeys(Values)
             formattedValues == [col \in columns |->
                                   Bind(applyFormatIn(variant, schema[col], Values[col]))]
             res == EngineInsert(c, columns, formattedValues)
         IN [c |-> res.c, raised |-> res.err]

\* The NOT NULL loop at the head of Update.
UpdateRejects(variant, schema, values) ==
    \E key \in ObjectKeys(values) :
        isNotNullField(variant, schema[key]) /\ values[key] = NULL

Update(variant, schema, c, values, where) ==
    IF UpdateRejects(variant, schema, values)
    THEN [c |-> c, raised |-> TRUE]
    ELSE IF ObjectKeys(values) = {}
    THEN [c |-> c, raised |-> FALSE]
    ELSE LET columns == ObjectKeys(values)
             setParams == [col \in columns |->
                             Bind(applyFormatIn(variant, schema[col], values[col]))]
             res == EngineUpdate(c, columns, setParams, variant, schema, where)
         IN [c |-> res.c, raised |-> res.err]

Delete(variant, schema, c, where) ==
    LET res == EngineDelete(c, variant, schema, where)
    IN [c |-> res.c, raised |-> res.err]

\* Batch(fn): BEGIN; try { fn(); COMMIT } catch { ROLLBACK; throw }.
BatchCommit(c) == Commit(c)
\* Mutant: the catch block commits what the callback wrote.
BatchCatch_Commits(c) == Commit(c)

\* The catch block of Batch: ROLLBACK (the error is then thrown again).
BatchCatch(c) == Rollback(c)

\* InsertMany(rows): a Batch whose callback inserts the rows in order and
\* lets the first error escape.
RECURSIVE InsertLoop(_, _, _, _)
InsertLoop(variant, schema, c, rows) ==
    IF rows = <<>> THEN [c |-> c, raised |-> FALSE]
    ELSE LET r == Insert(variant, schema, c, Head(rows))
         IN IF r.raised THEN r
            ELSE InsertLoop(variant, schema, r.c, Tail(rows))

InsertMany(variant, schema, c, rows) ==
    LET b == Begin(c)
    IN IF b.err THEN [c |-> b.c, raised |-> TRUE]
       ELSE LET fn == InsertLoop(variant, schema, b.c, rows)
            IN IF fn.raised
               THEN [c |-> BatchCatch(fn.c).c, raised |-> TRUE]
               ELSE LET k == BatchCommit(fn.c)
                    IN IF k.err THEN [c |-> BatchCatch(k.c).c, raised |-> TRUE]
                       ELSE [c |-> k.c, raised |-> FALSE]

\* ------------------------------------------------------------ where clause
\* The compiled clause is the sequence of its lexical tokens; a predicate
\* token stands for one condition on a column and carries the number n of
\* "?" placeholders in it and, as lit, the filter literal each placeholder
\* was written for.
\* The value of an expression, computed once.
Only(S) == CHOOSE v \in S : TRUE

Tok(t) == [t |-> t, col |-> "", op |-> "", n |-> 0, lit |-> <<>>]
Pred(col, op, literals) ==
    [t |-> "pred", col |-> col, op |-> op, n |-> Len(literals),
     lit |-> [i \in 1..Len(literals) |-> Keyed("", literals[i])]]
Const(op) == [t |-> "const", col |-> "", op |-> op, n |-> 0, lit |-> <<>>]
Paren(part) == <<Tok("(")>> \o part \o <<Tok(")")>>

\* parts.join(` ${joiner} `)
RECURSIVE Join(_, _)
Join(parts, joiner) ==
    IF parts = <<>> THEN <<>>
    ELSE IF Len(parts) = 1 THEN parts[1]
    ELSE parts[1] \o <<Tok(joiner)>> \o Join(Tail(parts), joiner)

\* What one step of the compiler pushes: condition texts and parameters.
NoParts == [parts |-> <<>>, params |-> <<>>, raised |-> FALSE]
Push(part, params) == [parts |-> <<part>>, params |-> params, raised |-> FALSE]
Thrown == [parts |-> <<>>, params |-> <<>>, raised |-> TRUE]
Both(a, b) == [parts |-> a.parts \o b.parts, params |-> a.params \o b.params,
               raised |-> a.raised \/ b.raised]

IsNullNode(node) == node.t = "scalar" /\ node.s = NULL
ArrayIsArray(node) == node.t = "array"
IsObjectNode(node) == node.t \in {"object", "date"}

isJsonOrArrayColumn(schema, column) ==
    column \in DOMAIN schema /\ schema[column].Type \in {"JSON", "ARRAY"}

ensureFormatted(variant, schema, column, node) ==
    IF column \in DOMAIN schema
    THEN applyFormatIn(variant, schema[column], JsValue(node))
    ELSE JsValue(node)

\* JSON.stringify(value) as addCondition of part_002 passes it to the engine.
StringifyParam(node) ==
    IF node.t = "scalar" /\ node.s = UNDEFINED THEN UNDEFINED
    ELSE JSONstringify(node)

\* formatForJsonElement of part_002: objects and arrays as JSON text,
\* primitives as they are.
formatForJsonElement(node) ==
    IF IsNullNode(node) THEN NULL
    ELSE IF node.t = "scalar" THEN node.s
    ELSE JSONstringify(node)

FormatEach(variant, schema, column, elements) ==
    [i \in 1..Len(elements) |-> ensureFormatted(variant, schema, column, elements[i])]
FormatEachElement(elements) ==
    [i \in 1..Len(elements) |-> formatForJsonElement(elements[i])]

\* The element of a destructured array, undefined past its end.
ElementAt(node, i) ==
    IF ArrayIsArray(node) /\ i <= Len(node.e) THEN node.e[i] ELSE Scalar("", UNDEFINED)

SqlOperator(op) ==
    CASE op = "$eq" -> "=" [] op = "$ne" -> "<>" [] op = "$gt" -> ">"
      [] op = "$gte" -> ">=" [] op = "$lt" -> "<" [] op = "$lte" -> "<="
      [] op = "$like" -> "LIKE" [] OTHER -> "="

\* addCondition of part_002; the other revisions have its non-Json branch
\* inline.
addCondition(variant, schema, column, operator, value, isJsonCol) ==
    IF isJsonCol
    THEN Push(<<Pred(column, "json_extract " \o operator, <<value>>)>>, <<StringifyParam(value)>>)
    ELSE Push(<<Pred(column, operator, <<value>>)>>,
              <<ensureFormatted(variant, schema, column, value)>>)

\* Mutant: the IN list binds one parameter fewer than it has placeholders.
addInCondition_DropsLast(variant, schema, column, values, isJsonCol, negated) ==
    Push(<<Pred(column, IF negated THEN "NOT IN" ELSE "IN", values)>>,
         SubSeq(FormatEach(variant, schema, column, values), 1, Len(values) - 1))

\* addInCondition of part_002; the other revisions have its non-Json branch
\* inline (column array, $in, $nin).
addInCondition(variant, schema, column, values, isJsonCol, negated) ==
    IF Len(values) = 0
    THEN Push(<<Const(IF negated THEN "1 = 1" ELSE "1 = 0")>>, <<>>)
    ELSE IF isJsonCol
    THEN Push(<<Pred(column, IF negated THEN "json_each NOT IN" ELSE "json_each IN",
                     values)>>,
              FormatEachElement(values))
    ELSE Push(<<Pred(column, IF negated THEN "NOT IN" ELSE "IN", values)>>,
              FormatEach(variant, schema, column, values))

RECURSIVE buildForObject(_, _, _)
RECURSIVE processEntries(_, _, _)
RECURSIVE compileOps(_, _, _, _)
RECURSIVE compileSubs(_, _, _)

\* compileColumnOp of database.ts and table.ts.
compileColumnOp(variant, schema, column, value) ==
    LET op == value.k
    IN CASE op \in {"$eq", "$gt", "$gte", "$lt", "$lte", "$like"} ->
              addCondition(variant, schema, column, SqlOperator(op), value, FALSE)
         [] op = "$ne" ->
              IF IsNullNode(value) THEN Push(<<Pred(column, "IS NOT NULL", <<>>)>>, <<>>)
              ELSE addCondition(variant, schema, column, "<>", value, FALSE)
         [] op = "$between" ->
              Push(<<Pred(column, "BETWEEN", <<ElementAt(value, 1), ElementAt(value, 2)>>)>>,
                   <<ensureFormatted(variant, schema, column, ElementAt(value, 1)),
                     ensureFormatted(variant, schema, column, ElementAt(value, 2))>>)
         [] op = "$in" ->
              addInCondition(variant, schema, column,
                             IF ArrayIsArray(value) THEN value.e ELSE <<>>, FALSE, FALSE)
         [] op = "$nin" ->
              addInCondition(variant, schema, column,
                             IF ArrayIsArray(value) THEN value.e ELSE <<>>, FALSE, TRUE)
         [] op = "$is" ->
              IF IsNullNode(value) \/ (value.t = "scalar" /\ value.s = "null")
              THEN Push(<<Pred(column, "IS NULL", <<>>)>>, <<>>)
              ELSE Push(<<Pred(column, "IS NOT NULL", <<>>)>>, <<>>)
         [] op = "$not" ->
              IF IsObjectNode(value)
              THEN Only({IF compiled.raised THEN Thrown
                         ELSE IF compiled.part # <<>>
                         THEN Push(<<Tok("NOT")>> \o Paren(compiled.part), compiled.params)
                         ELSE NoParts :
                         compiled \in {buildForObject(variant, schema,
                                         ObjectOf("", <<Keyed(column, value)>>))}})
              ELSE IF ArrayIsArray(value)
              THEN Push(<<Tok("NOT")>> \o Paren(<<Pred(column, "IN", value.e)>>),
                        FormatEach(variant, schema, column, value.e))
              ELSE IF IsNullNode(value)
              THEN Push(<<Pred(column, "IS NOT NULL", <<>>)>>, <<>>)
              ELSE Push(<<Tok("NOT")>> \o Paren(<<Pred(column, "=", <<value>>)>>),
                        <<ensureFormatted(variant, schema, column, value)>>)
         [] OTHER -> addCondition(variant, schema, column, "=", value, FALSE)

\* The operator switch of processColumnValue in part_002.
compileColumnOpJson(variant, schema, column, value, isJsonCol) ==
    LET op == value.k
    IN CASE op \in {"$eq", "$gt", "$gte", "$lt", "$lte", "$like"} ->
              addCondition(variant, schema, column, SqlOperator(op), value, isJsonCol)
         [] op = "$ne" ->
              IF IsNullNode(value) THEN Push(<<Pred(column, "IS NOT NULL", <<>>)>>, <<>>)
              ELSE addCondition(variant, schema, column, "<>", value, isJsonCol)
         [] op = "$between" ->
              IF isJsonCol
              THEN Push(<<Pred(column, "json_extract BETWEEN",
                             <<ElementAt(value, 1), ElementAt(value, 2)>>)>>,
                        <<StringifyParam(ElementAt(value, 1)),
                          StringifyParam(ElementAt(value, 2))>>)
              ELSE Push(<<Pred(column, "BETWEEN", <<ElementAt(value, 1), ElementAt(value, 2)>>)>>,
                        <<ensureFormatted(variant, schema, column, ElementAt(value, 1)),
                          ensureFormatted(variant, schema, column, ElementAt(value, 2))>>)
         [] op = "$in" ->
              addInCondition(variant, schema, column,
                             IF ArrayIsArray(value) THEN value.e ELSE <<>>, isJsonCol, FALSE)
         [] op = "$nin" ->
              addInCondition(variant, schema, column,
                             IF ArrayIsArray(value) THEN value.e ELSE <<>>, isJsonCol, TRUE)
         [] op = "$is" ->
              IF IsNullNode(value) \/ (value.t = "scalar" /\ value.s = "null")
              THEN Push(<<Pred(column, "IS NULL", <<>>)>>, <<>>)
              ELSE Push(<<Pred(column, "IS NOT NULL", <<>>)>>, <<>>)
         [] op = "$not" ->
              IF IsObjectNode(value) \/ IsNullNode(value)
              THEN Only({IF compiled.raised THEN Thrown
                         ELSE IF compiled.part # <<>>
                         THEN Push(<<Tok("NOT")>> \o Paren(compiled.part), compiled.params)
                         ELSE NoParts :
                         compiled \in {buildForObject(variant, schema,
                                         ObjectOf("", <<Keyed(column, value)>>))}})
              ELSE IF ArrayIsArray(value)
              THEN addInCondition(variant, schema, column, value.e, isJsonCol, TRUE)
              ELSE addCondition(variant, schema, column, "<>", value, isJsonCol)
         [] op = "$includes" ->
              IF isJsonCol
              THEN Push(<<Pred(column, "json_each =", <<value>>)>>, <<formatForJsonElement(value)>>)
              ELSE Thrown
         [] OTHER -> addCondition(variant, schema, column, "=", value, isJsonCol)

\* for (const [op, v] of Object.entries(value)) ...
compileOps(variant, schema, column, ops) ==
    IF ops = <<>> THEN NoParts
    ELSE Both(IF variant = Part002
              THEN compileColumnOpJson(variant, schema, column, Head(ops),
                                       isJsonOrArrayColumn(schema, column))
              ELSE compileColumnOp(variant, schema, column, Head(ops)),
              compileOps(variant, schema, column, Tail(ops)))

\* One EXISTS (... json_each.value = ?) per element, joined with AND.
ContainsAll(column, elements) ==
    Join([i \in 1..Len(elements) |-> <<Pred(column, "json_each =", <<elements[i]>>)>>], "AND")

\* Object.keys(value).some(key => key.startsWith('$'))
OperatorKeys == {"$eq", "$ne", "$gt", "$gte", "$lt", "$lte", "$like", "$between",
                 "$in", "$nin", "$is", "$not", "$includes"}
hasOperators(value) == \E i \in 1..Len(value.e) : value.e[i].k \in OperatorKeys

\* The column case of processNode in database.ts and table.ts.
processColumn(variant, schema, column, valueRef) ==
    IF IsNullNode(valueRef) THEN Push(<<Pred(column, "IS NULL", <<>>)>>, <<>>)
    ELSE IF ArrayIsArray(valueRef)
    THEN addInCondition(variant, schema, column, valueRef.e, FALSE, FALSE)
    ELSE IF IsObjectNode(valueRef)
    THEN compileOps(variant, schema, column, valueRef.e)
    ELSE Push(<<Pred(column, "=", <<valueRef>>)>>,
              <<ensureFormatted(variant, schema, column, valueRef)>>)

\* Mutant: part_002 compiles a list on a Json or Array column as the other
\* revisions do, as an IN list.
processColumnValue_ListIsIn(variant, schema, column, value) ==
    processColumn(variant, schema, column, value)

\* processColumnValue of part_002.
processColumnValue(variant, schema, column, value) ==
    LET isJsonCol == isJsonOrArrayColumn(schema, column)
    IN IF IsNullNode(value) THEN Push(<<Pred(column, "IS NULL", <<>>)>>, <<>>)
       ELSE IF ArrayIsArray(value)
       THEN (IF isJsonCol
             THEN (IF Len(value.e) = 0 THEN Push(<<Const("1 = 1")>>, <<>>)
                   ELSE Push(ContainsAll(column, value.e), FormatEachElement(value.e)))
             ELSE addInCondition(variant, schema, column, value.e, isJsonCol, FALSE))
       ELSE IF IsObjectNode(value)
       THEN (IF hasOperators(value)
             THEN compileOps(variant, schema, column, value.e)
             ELSE IF isJsonCol
             THEN Push(<<Pred(column, "json_extract =", <<value>>)>>, <<StringifyParam(value)>>)
             ELSE Thrown)
       ELSE IF isJsonCol
       THEN Push(<<Pred(column, "json_extract =", <<value>>)>>,
                 <<IF IsString(value.s) /\ JSONparse(value.s) # "SyntaxError"
                   THEN value.s ELSE StringifyParam(value)>>)
       ELSE Push(<<Pred(column, "=", <<value>>)>>,
                 <<ensureFormatted(variant, schema, column, value)>>)

\* The loop over the children of $or / $and: each non-empty child is
\* wrapped in parentheses.
compileSubs(variant, schema, arr) ==
    IF arr = <<>> THEN NoParts
    ELSE Only({IF compiled.raised THEN Thrown
               ELSE IF compiled.part # <<>>
               THEN Both(Push(Paren(compiled.part), compiled.params), rest)
               ELSE rest :
               compiled \in {buildForObject(variant, schema, Head(arr))},
               rest \in {compileSubs(variant, schema, Tail(arr))}})

\* subParts.join(` ${joiner} `), pushed as one part.
JoinSubs(subParts, joiner) == Join(subParts, joiner)

\* Mutant: an $or / $and without a compiled child is an always-false stub.
processNode_EmptyIsFalse(variant, schema, node) ==
    IF node.k \in {"$or", "$and"}
    THEN Only({IF subs.raised THEN Thrown
               ELSE IF Len(subs.parts) > 0
               THEN Push(JoinSubs(subs.parts, IF node.k = "$or" THEN "OR" ELSE "AND"),
                         subs.params)
               ELSE Push(<<Const("1 = 0")>>, <<>>) :
               subs \in {compileSubs(variant, schema,
                                     IF ArrayIsArray(node) THEN node.e ELSE <<node>>)}})
    ELSE IF variant = Part002 THEN processColumnValue(variant, schema, node.k, node)
    ELSE processColumn(variant, schema, node.k, node)

processNode(variant, schema, node) ==
    IF node.k \in {"$or", "$and"}
    THEN LET joiner == IF node.k = "$or" THEN "OR" ELSE "AND"
             arr == IF ArrayIsArray(node) THEN node.e ELSE <<node>>
         IN Only({IF subs.raised THEN Thrown
                  ELSE IF Len(subs.parts) > 0
                  THEN Push(JoinSubs(subs.parts, joiner), subs.params)
                  ELSE NoParts :
                  subs \in {compileSubs(variant, schema, arr)}})
    ELSE IF variant = Part002 THEN processColumnValue(variant, schema, node.k, node)
    ELSE processColumn(variant, schema, node.k, node)

\* for (const [key, value] of Object.entries(obj)) processNode(key, value)
processEntries(variant, schema, entries) ==
    IF entries = <<>> THEN NoParts
    ELSE Both(processNode(variant, schema, Head(entries)),
              processEntries(variant, schema, Tail(entries)))

buildForObject(variant, schema, obj) ==
    Only({[part |-> Join(r.parts, "AND"), params |-> r.params, raised |-> r.raised] :
          r \in {processEntries(variant, schema, obj.e)}})

\* buildWhereClause: no filter or {} gives no clause.  (Raw string filters
\* and $raw are passed to the engine as written and are not among the inputs.)
NoFilter == ObjectOf("", <<>>)
buildWhereClause(variant, schema, where) ==
    IF where.e = <<>> THEN [clause |-> <<>>, params |-> <<>>, raised |-> FALSE]
    ELSE Only({IF compiled.raised THEN [clause |-> <<>>, params |-> <<>>, raised |-> TRUE]
               ELSE IF compiled.part = <<>>
               THEN [clause |-> <<>>, params |-> <<>>, raised |-> FALSE]
               ELSE [clause |-> compiled.part, params |-> compiled.params, raised |-> FALSE] :
               compiled \in {buildForObject(variant, schema, where)}})

\* --------------------------------------------------- the engine's evaluation
\* Truth values of a condition on a row: true, false, unknown (NULL) and
\* "E" for a statement the engine rejects (malformed JSON).
Not3(a) == CASE a = "T" -> "F" [] a = "F" -> "T" [] OTHER -> a
And3(a, b) ==
    IF a = "E" \/ b = "E" THEN "E"
    ELSE IF a = "F" \/ b = "F" THEN "F"
    ELSE IF a = "U" \/ b = "U" THEN "U"
    ELSE "T"
Or3(a, b) == Not3(And3(Not3(a), Not3(b)))
Truth(b) == IF b THEN "T" ELSE "F"

\* The column affinity of a declared field (OptimaToSQLMAP).
SQLType(field) == IF field.Type \in {"INT", "BOOLEAN"} THEN "INTEGER" ELSE "TEXT"

\* BINARY collation of the texts the model stores, smallest first.
Collation == <<"\"x\"", "0", "1", "2", Iso, "[1,2]", "[1]", "[]", "x",
               "{\"f\":1,\"g\":2}", "{\"f\":1}">>
Position(seq, x) == CHOOSE i \in 1..Len(seq) : seq[i] = x
NumericOrder == <<"0", "1", "2">>

\* a < b for two non-NULL values.  Under TEXT affinity both are compared as
\* text; otherwise integers order by value and sort before every text.
SqlLess(a, b, affinity) ==
    IF affinity # "TEXT" /\ a \in Numbers /\ b \in Numbers
    THEN Position(NumericOrder, a) < Position(NumericOrder, b)
    ELSE IF affinity # "TEXT" /\ (a \in Numbers) # (b \in Numbers)
    THEN a \in Numbers
    ELSE Position(Collation, a) < Position(Collation, b)

\* x op y in three-valued logic.
Compare3(x, operator, y, affinity) ==
    IF x = NULL \/ y = NULL THEN "U"
    ELSE CASE operator = "="    -> Truth(x = y)
           [] operator = "LIKE" -> Truth(x = y)
           [] operator = "<>"   -> Truth(x # y)
           [] operator = "<"    -> Truth(SqlLess(x, y, affinity))
           [] operator = "<="   -> Truth(x = y \/ SqlLess(x, y, affinity))
           [] operator = ">"    -> Truth(SqlLess(y, x, affinity))
           [] operator = ">="   -> Truth(x = y \/ SqlLess(y, x, affinity))

\* x IN (args).
In3(x, args, affinity) ==
    IF Len(args) = 0 THEN "F"
    ELSE IF x = NULL THEN "U"
    ELSE IF \E i \in 1..Len(args) : args[i] # NULL /\ args[i] = x THEN "T"
    ELSE IF \E i \in 1..Len(args) : args[i] = NULL THEN "U"
    ELSE "F"

\* json_extract(x, '$'): NULL for NULL, the value of a JSON scalar, the text
\* itself for an array or object; "E" for text that is not JSON.
IsJsonText(x) == JSONparse(x) # "SyntaxError"
JsonNode(x) == CHOOSE n \in Parsed : JSONstringify(n) = x
json_extract(x) ==
    IF x = NULL THEN NULL
    ELSE IF ~IsJsonText(x) THEN "E"
    ELSE IF JsonNode(x).t = "scalar" THEN JsonNode(x).s
    ELSE x

\* The values json_each(x) yields: the elements of an array, the member
\* values of an object, the value itself for a scalar, nothing for NULL.
json_each(x) ==
    IF x = NULL THEN {}
    ELSE IF JsonNode(x).t = "scalar" THEN {JsonNode(x).s}
    ELSE {formatForJsonElement(JsonNode(x).e[i]) : i \in 1..Len(JsonNode(x).e)}

\* A comparison whose left side is json_extract(...): the parameter is a
\* JavaScript string, bound as TEXT, and an extracted number is no text.
JsonCompare3(x, operator, y) ==
    IF json_extract(x) = "E" THEN "E"
    ELSE IF json_extract(x) \in Numbers /\ y # NULL
    THEN Compare3("0", operator, "x", "NONE")
    ELSE Compare3(json_extract(x), operator, y, "TEXT")

\* One condition on one row; args are the values bound to its placeholders.
PredTruth(tok, args, row, schema) ==
    LET x == row[tok.col]
        affinity == IF tok.col \in DOMAIN schema THEN SQLType(schema[tok.col]) ELSE "NONE"
    IN CASE tok.t = "const" -> Truth(tok.op = "1 = 1")
         [] tok.op = "IS NULL" -> Truth(x = NULL)
         [] tok.op = "IS NOT NULL" -> Truth(x # NULL)
         [] tok.op = "IN" -> In3(x, args, affinity)
         [] tok.op = "NOT IN" -> Not3(In3(x, args, affinity))
         [] tok.op = "BETWEEN" ->
              And3(Compare3(x, ">=", args[1], affinity), Compare3(x, "<=", args[2], affinity))
         [] tok.op = "json_extract BETWEEN" ->
              And3(JsonCompare3(x, ">=", args[1]), JsonCompare3(x, "<=", args[2]))
         [] tok.op \in {"json_extract " \o o : o \in {"=", "<>", "<", "<=", ">", ">=", "LIKE"}} ->
              JsonCompare3(x, CHOOSE o \in {"=", "<>", "<", "<=", ">", ">=", "LIKE"} :
                                 tok.op = "json_extract " \o o, args[1])
         [] tok.op \in {"json_each =", "json_each IN", "json_each NOT IN"} ->
              IF x # NULL /\ ~IsJsonText(x) THEN "E"
              ELSE Truth(\E v \in json_each(x) :
                           (IF tok.op = "json_each NOT IN"
                            THEN Not3(In3(v, args, "NONE"))
                            ELSE In3(v, args, "NONE")) = "T")
         [] OTHER -> Compare3(x, tok.op, args[1], affinity)

\* The clause is evaluated as SQL reads it: NOT binds tighter than AND, AND
\* tighter than OR, parentheses group.  Each function takes the position i
\* of the next token and p of the next parameter and returns the truth value
\* with the positions after the expression it read.  A placeholder past the
\* end of the bound parameters is NULL.
BoundArgs(params, p, n) ==
    [j \in 1..n |-> IF p + j - 1 <= Len(params) THEN Bind(params[p + j - 1]) ELSE NULL]

RECURSIVE EvalOr(_, _, _)
RECURSIVE EvalOrTail(_, _)
RECURSIVE EvalAnd(_, _, _)
RECURSIVE EvalAndTail(_, _)
RECURSIVE EvalNot(_, _, _)
EvalPrimary(q, i, p) ==
    LET tok == q.clause[i]
    IN IF tok.t = "("
       THEN Only({[r EXCEPT !.i = r.i + 1] : r \in {EvalOr(q, i + 1, p)}})
       ELSE [v |-> PredTruth(tok, BoundArgs(q.params, p, tok.n), q.row, q.schema),
             i |-> i + 1, p |-> p + tok.n]

EvalNot(q, i, p) ==
    IF q.clause[i].t = "NOT"
    THEN Only({[r EXCEPT !.v = Not3(r.v)] : r \in {EvalNot(q, i + 1, p)}})
    ELSE EvalPrimary(q, i, p)

EvalAndTail(q, acc) ==
    IF acc.i <= Len(q.clause) /\ q.clause[acc.i].t = "AND"
    THEN Only({EvalAndTail(q, [r EXCEPT !.v = And3(acc.v, r.v)]) :
                 r \in {EvalNot(q, acc.i + 1, acc.p)}})
    ELSE acc

EvalAnd(q, i, p) == EvalAndTail(q, EvalNot(q, i, p))

EvalOrTail(q, acc) ==
    IF acc.i <= Len(q.clause) /\ q.clause[acc.i].t = "OR"
    THEN Only({EvalOrTail(q, [r EXCEPT !.v = Or3(acc.v, r.v)]) :
                 r \in {EvalAnd(q, acc.i + 1, acc.p)}})
    ELSE acc

EvalOr(q, i, p) == EvalOrTail(q, EvalAnd(q, i, p))

\* WHERE clause on a row ("T" for no clause).
Where3(schema, clause, params, row) ==
    IF clause = <<>> THEN "T"
    ELSE EvalOr([clause |-> clause, params |-> params, row |-> row,
                 schema |-> schema], 1, 1).v

\* The columns a clause names.
ClauseColumns(clause) == {clause[i].col : i \in {j \in 1..Len(clause) : clause[j].t = "pred"}}

\* SELECT * FROM table WHERE clause: prepare rejects a missing table and an
\* unknown column; the rows the clause is true for, in table order.
EngineSelect(c, name, schema, clause, params) ==
    LET t == c.tables[name]
        Selected(r) == Where3(schema, clause, params, r) = "T"
    IN IF ~t.exists \/ ~(ClauseColumns(clause) \subseteq t.cols)
          \/ \E i \in 1..Len(t.rows) : Where3(schema, clause, params, t.rows[i]) = "E"
       THEN [rows |-> <<>>, err |-> TRUE]
       ELSE [rows |-> SelectSeq(t.rows, Selected), err |-> FALSE]

\* -------------------------------------------------------------------- reads
\* applyFormatOut of schema.ts:468, which switches on the argument it is
\* given as a type name.
applyFormatOutByName(field, value) ==
    CASE field = "BOOLEAN" -> IF value = "1" THEN "true" ELSE "false"
      [] field \in {"JSON", "ARRAY"} -> JSONparse(value)
      [] field = "DATETIME" -> IF IsString(value) THEN "Date(" \o value \o ")" ELSE value
      [] OTHER -> value

\* applyFormatOut of the fields of part_001 and of schema.ts:1013.
applyFormatOutByField(field, value) ==
    IF value = UNDEFINED THEN UNDEFINED
    ELSE IF value = NULL THEN NULL
    ELSE CASE field.Type = "BOOLEAN" -> IF value \in {"1", "true"} THEN "true" ELSE "false"
           [] field.Type \in {"JSON", "ARRAY"} ->
                IF JSONparse(value) = "SyntaxError" THEN value ELSE JSONparse(value)
           [] field.Type = "DATETIME" ->
                IF IsString(value) THEN "Date(" \o value \o ")" ELSE value
           [] OTHER -> value

\* The field object where a type name is expected.
FieldObject == "[object Object]"

\* applyFormatOut as mapOutRow calls it: with the field object in every
\* revision.
applyFormatOut(variant, field, value) ==
    IF variant = "OptimaTB" THEN applyFormatOutByName(FieldObject, value)
    ELSE applyFormatOutByField(field, value)

mapOutRow(variant, schema, row) ==
    [key \in DOMAIN row |->
       IF key \in DOMAIN schema THEN applyFormatOut(variant, schema[key], row[key])
       ELSE row[key]]

EmptyMap == [x \in {} |-> x]

\* Get(where): compile the filter, select, map every row out.
GetFrom(variant, name, schema, c, where) ==
    Only({IF w.raised
          THEN [c |-> c, raised |-> TRUE, out |-> <<>>, clause |-> <<>>, params |-> <<>>]
          ELSE Only({[c |-> Log(c, "SELECT"), raised |-> res.err,
                      out |-> [i \in 1..Len(res.rows) |->
                                 mapOutRow(variant, schema, res.rows[i])],
                      clause |-> w.clause, params |-> w.params] :
                     res \in {EngineSelect(c, name, schema, w.clause, w.params)}}) :
          w \in {buildWhereClause(variant, schema, where)}})

Get(variant, schema, c, where) == GetFrom(variant, Name, schema, c, where)

\* ---------------------------------------------- writes and counts by filter
\* The rows of the table the clause is true for; prepare rejects a missing
\* table and an unknown column.
ClauseRejected(c, schema, clause, params) ==
    \/ ~c.tables[Name].exists
    \/ ~(ClauseColumns(clause) \subseteq c.tables[Name].cols)
    \/ \E i \in 1..Len(c.tables[Name].rows) :
          Where3(schema, clause, params, c.tables[Name].rows[i]) = "E"
ClauseRows(c, schema, clause, params) ==
    {i \in 1..Len(c.tables[Name].rows) :
       Where3(schema, clause, params, c.tables[Name].rows[i]) = "T"}

\* The rows that are left when the rows at the positions gone are deleted.
Remaining(rows, gone) ==
    [i \in 1..(Len(rows) - Cardinality(gone)) |->
       rows[CHOOSE j \in 1..Len(rows) :
              j \notin gone /\ Cardinality({k \in 1..j : k \notin gone}) = i]]

\* Count(where): SELECT COUNT(*) with the compiled clause.
CountWith(schema, c, w) ==
    IF w.raised \/ ClauseRejected(c, schema, w.clause, w.params)
    THEN [c |-> c, raised |-> TRUE, count |-> 0, clause |-> w.clause, params |-> w.params]
    ELSE [c |-> Log(c, "SELECT"), raised |-> FALSE,
          count |-> Cardinality(ClauseRows(c, schema, w.clause, w.params)),
          clause |-> w.clause, params |-> w.params]
CountWhere(variant, schema, c, where) ==
    Only({CountWith(schema, c, w) : w \in {buildWhereClause(variant, schema, where)}})

\* Delete(where): DELETE FROM with the compiled clause.
DeleteWith(schema, c, w) ==
    IF w.raised THEN [c |-> c, raised |-> TRUE, clause |-> w.clause, params |-> w.params]
    ELSE IF ClauseRejected(c, schema, w.clause, w.params)
    THEN [c |-> Log(c, "DELETE"), raised |-> TRUE, clause |-> w.clause, params |-> w.params]
    ELSE [c |-> AutoCommit([Log(c, "DELETE") EXCEPT !.tables[Name].rows =
                   Remaining(c.tables[Name].rows,
                             ClauseRows(c, schema, w.clause, w.params))]),
          raised |-> FALSE, clause |-> w.clause, params |-> w.params]
DeleteWhere(variant, schema, c, where) ==
    Only({DeleteWith(schema, c, w) : w \in {buildWhereClause(variant, schema, where)}})

\* Update(values, where): the NOT NULL loop, the SET list, then UPDATE with
\* the compiled clause.
UpdateWith(variant, schema, c, values, w) ==
    LET t == c.tables[Name]
        columns == ObjectKeys(values)
        setParams == [col \in columns |->
                        Bind(applyFormatIn(variant, schema[col], values[col]))]
        updated == [i \in 1..Len(t.rows) |->
                      IF i \in ClauseRows(c, schema, w.clause, w.params)
                      THEN [col \in t.cols |->
                              IF col \in columns THEN setParams[col] ELSE t.rows[i][col]]
                      ELSE t.rows[i]]
    IN IF w.raised THEN [c |-> c, raised |-> TRUE, clause |-> w.clause, params |-> w.params]
       ELSE IF \/ ClauseRejected(c, schema, w.clause, w.params)
               \/ ~(columns \subseteq t.cols) \/ ViolatesConstraints(t, updated)
       THEN [c |-> Log(c, "UPDATE"), raised |-> TRUE, clause |-> w.clause, params |-> w.params]
       ELSE [c |-> AutoCommit([Log(c, "UPDATE") EXCEPT !.tables[Name].rows = updated]),
             raised |-> FALSE, clause |-> w.clause, params |-> w.params]
UpdateWhere(variant, schema, c, values, where) ==
    IF UpdateRejects(variant, schema, values)
    THEN [c |-> c, raised |-> TRUE, clause |-> <<>>, params |-> <<>>]
    ELSE IF ObjectKeys(values) = {}
    THEN [c |-> c, raised |-> FALSE, clause |-> <<>>, params |-> <<>>]
    ELSE Only({UpdateWith(variant, schema, c, values, w) :
                 w \in {buildWhereClause(variant, schema, where)}})

\* ------------------------------------------------------------------- extend
\* reference(Table, Field, type) on a field: TableName is
\* Table["__tableName"], undefined when Table carries no name.
reference(field, TableName, FieldName, type) ==
    [field EXCEPT !.Reference = [TableName |-> TableName, Field |-> FieldName,
                                 Type |-> type]]

\* The fields of a sibling schema whose reference names the table.
ReferringFields(schema, name) ==
    {col \in ObjectKeys(schema) : schema[col].Reference.TableName = name}

\* Mutant: every relation is recorded with the cardinality One.
extendRelationships_AlwaysOne(Tables) ==
    [t \in {t \in DOMAIN Tables : ReferringFields(Tables[t], Name) # {}} |->
       LET col == CHOOSE col \in ReferringFields(Tables[t], Name) : TRUE
       IN [ExternalField |-> col,
           InternalField |-> Tables[t][col].Reference.Field,
           Type |-> "One"]]

\* Object.keys of a table declaration: the columns in declaration order.
\* Declarations list their columns in the order of DeclarationOrder.
DeclarationOrder == <<"A", "B", "C", "F", "G">>
ObjectKeysInOrder(obj) ==
    LET Declared(k) == k \in DOMAIN obj
    IN SelectSeq(DeclarationOrder, Declared)

NoEdge == [ExternalField |-> NULL, InternalField |-> NULL, Type |-> NULL]
EdgeOf(tableSchema, col) ==
    [ExternalField |-> col,
     InternalField |-> tableSchema[col].Reference.Field,
     Type |-> tableSchema[col].Reference.Type]

\* Mutant: the entry of a sibling is set once and kept.
setEdge_FirstWins(tableSchema, col, edge) ==
    IF tableSchema[col].Reference.TableName = Name /\ edge = NoEdge
    THEN EdgeOf(tableSchema, col)
    ELSE edge

\* One column of a sibling: a column that references this table sets the
\* entry of the sibling anew.
setEdge(tableSchema, col, edge) ==
    IF tableSchema[col].Reference.TableName = Name
    THEN EdgeOf(tableSchema, col)
    ELSE edge

\* The inner loop of InitTable over the columns of one sibling.
RECURSIVE setEdges(_, _, _)
setEdges(tableSchema, keys, edge) ==
    IF keys = <<>> THEN edge
    ELSE setEdges(tableSchema, Tail(keys), setEdge(tableSchema, Head(keys), edge))

\* The loop of InitTable over the other tables: one edge per sibling that
\* has a field referencing this table, none for the table itself.
extendRelationships(Tables) ==
    [t \in {t \in DOMAIN Tables \ {Name} : ReferringFields(Tables[t], Name) # {}} |->
       setEdges(Tables[t], ObjectKeysInOrder(Tables[t]), NoEdge)]

\* InitTable of every sibling: CREATE TABLE IF NOT EXISTS.
InitSiblings(variant, Tables, c) ==
    IF Sibling \in DOMAIN Tables
    THEN CreateTableIfNotExists(c, Sibling, DeclaredTable(variant, Tables[Sibling])).c
    ELSE c

\* The start-up MigrateSchema() of the sibling: the rebuild through its
\* temporary table.
MigrateSibling(variant, schema, c) ==
    LET existingNames == c.tables[Sibling].cols
        b  == Begin(c)
        s1 == PragmaForeignKeys(b.c, FALSE)
        s2 == CreateTable(s1, tempSibling, buildCreateSQLFor(variant, schema), FALSE)
        s3 == InsertSelect(s2.c, tempSibling, Sibling,
                           selectExprs(variant, schema, existingNames, EmptyMap), FALSE)
        s4 == DropTableIfExists(s3.c, Sibling, FALSE)
        s5 == AlterTableRename(s4.c, tempSibling, Sibling, FALSE)
        s7 == Commit(PragmaForeignKeys(s5.c, TRUE))
    IN IF b.err THEN [c |-> b.c, raised |-> TRUE]
       ELSE IF s2.err THEN [c |-> MigrateCatch(s2.c), raised |-> TRUE]
       ELSE IF s3.err THEN [c |-> MigrateCatch(s3.c), raised |-> TRUE]
       ELSE IF s5.err THEN [c |-> MigrateCatch(s5.c), raised |-> TRUE]
       ELSE [c |-> s7.c, raised |-> s7.err]

MigrateSiblings(variant, Tables, c) ==
    IF Sibling \in DOMAIN Tables
    THEN MigrateSibling(variant, Tables[Sibling], c)
    ELSE [c |-> c, raised |-> FALSE]

\* The REFERENCES clause of a column, enforced when foreign_keys is on: the
\* parent table must exist and hold the key.
ForeignKeyFails(c, schema, row) ==
    /\ c.foreign_keys
    /\ \E col \in ObjectKeys(schema) :
         /\ schema[col].Reference # NoReference
         /\ row[col] # NULL
         /\ \/ schema[col].Reference.TableName \notin TableNames
            \/ LET parent == c.tables[schema[col].Reference.TableName]
               IN \/ ~parent.exists
                  \/ schema[col].Reference.Field \notin parent.cols
                  \/ \A i \in 1..Len(parent.rows) :
                        parent.rows[i][schema[col].Reference.Field] # row[col]

\* Insert(Values) on the sibling table.
InsertSibling(variant, schema, c, Values) ==
    IF InsertRejects(variant, schema, Values)
    THEN [c |-> c, raised |-> TRUE]
    ELSE LET columns == ObjectKeys(Values)
             t == c.tables[Sibling]
             row == [col \in t.cols |->
                       IF col \in columns
                       THEN Bind(applyFormatIn(variant, schema[col], Values[col]))
                       ELSE t.dflt[col]]
         IN IF ~t.exists \/ columns = {} \/ ~(columns \subseteq t.cols)
               \/ ViolatesConstraints(t, <<row>>) \/ ForeignKeyFails(c, schema, row)
            THEN [c |-> Log(c, "INSERT"), raised |-> TRUE]
            ELSE [c |-> AutoCommit([Log(c, "INSERT")
                                      EXCEPT !.tables[Sibling].rows = Append(t.rows, row)]),
                  raised |-> FALSE]

\* What `$sibling` is given for one row: Tables[sibling].Get for the
\* cardinality Many, Tables[sibling].GetOne otherwise.
\* Get(where) for the filters {} and {key: value}: SELECT * FROM name with
\* the compiled clause, every row mapped out.
GetWhere(variant, name, schema, c, where) ==
    LET t == c.tables[name]
        Matches(row) == WhereMatches(variant, schema, where, row)
        rows == SelectSeq(t.rows, Matches)
    IN IF ~t.exists \/ (where.key # "" /\ where.key \notin t.cols)
       THEN [c |-> Log(c, "SELECT"), raised |-> TRUE, out |-> <<>>]
       ELSE [c |-> Log(c, "SELECT"), raised |-> FALSE,
             out |-> [i \in 1..Len(rows) |-> mapOutRow(variant, schema, rows[i])]]
NoData == [kind |-> "absent", rows |-> <<>>, raised |-> FALSE]
DataOf(Relation, g) ==
    IF Relation.Type = "Many"
    THEN [kind |-> "list", rows |-> g.out, raised |-> g.raised]
    ELSE IF g.out = <<>>
    THEN [kind |-> "none", rows |-> <<>>, raised |-> g.raised]
    ELSE [kind |-> "row", rows |-> <<g.out[1]>>, raised |-> g.raised]

SiblingData(variant, Tables, c, Relation, Table, r) ==
    Only({DataOf(Relation, g) :
            g \in {GetWhere(variant, Table, Tables[Table], c,
                            ColumnWhere(Relation.ExternalField,
                                        r[Relation.InternalField]))}})

\* The extend loop over the rows read: an error for the first name without
\* an edge, the data of the sibling next to each row otherwise.
NoError == [table |-> "", relation |-> ""]
ExtendData(variant, Tables, relationships, c, rows, Extend) ==
    [i \in 1..Len(rows) |->
       IF \E k \in 1..Len(Extend) : Extend[k] = Sibling
       THEN SiblingData(variant, Tables, c, relationships[Sibling], Sibling, rows[i])
       ELSE NoData]

ExtendResult(edges, Extend, data) ==
    LET missing == {i \in 1..Len(Extend) : Extend[i] \notin DOMAIN edges}
        first == CHOOSE i \in missing : \A j \in missing : i <= j
    IN IF missing # {}
       THEN [raised |-> TRUE, error |-> [table |-> Name, relation |-> Extend[first]],
             ext |-> <<>>]
       ELSE [raised |-> \E i \in DOMAIN data : data[i].raised,
             error |-> NoError,
             ext |-> [i \in DOMAIN data |-> [kind |-> data[i].kind, rows |-> data[i].rows]]]

ExtendRows(variant, Tables, relationships, c, rows, Extend) ==
    IF \E i \in 1..Len(Extend) : Extend[i] \notin DOMAIN relationships
    THEN ExtendResult(relationships, Extend, <<>>)
    ELSE Only({ExtendResult(relationships, Extend, data) :
                 data \in {ExtendData(variant, Tables, relationships, c, rows, Extend)}})

\* Get(where, {Extend}).
GetExtendOf(g, x) ==
    IF g.raised
    THEN [c |-> g.c, raised |-> TRUE, out |-> <<>>, ext |-> <<>>, error |-> NoError]
    ELSE [c |-> g.c, raised |-> x.raised, out |-> IF x.raised THEN <<>> ELSE g.out,
          ext |-> x.ext, error |-> x.error]

GetExtendWith(variant, Tables, relationships, Extend, g) ==
    Only({GetExtendOf(g, x) :
            x \in {ExtendRows(variant, Tables, relationships, g.c, g.out, Extend)}})

GetExtend(variant, schema, Tables, relationships, c, where, Extend) ==
    Only({GetExtendWith(variant, Tables, relationships, Extend, g) :
            g \in {GetWhere(variant, Name, schema, c, where)}})

\* GetOne(where, {Extend}): the first row or undefined. OptimaTable.GetOne
\* takes the filter alone; OptimaTB.GetOne returns before the extend loop
\* when no row was read.
FirstRow(rows) == IF rows = <<>> THEN <<>> ELSE <<rows[1]>>

GetOneOf(variant, g, mappedRow, x) ==
    IF g.raised
    THEN [c |-> g.c, raised |-> TRUE, out |-> <<>>, ext |-> <<>>, error |-> NoError]
    ELSE IF mappedRow = <<>> \/ variant = "OptimaTable"
    THEN [c |-> g.c, raised |-> FALSE, out |-> mappedRow,
          ext |-> [i \in 1..Len(mappedRow) |-> [kind |-> "absent", rows |-> <<>>]],
          error |-> NoError]
    ELSE [c |-> g.c, raised |-> x.raised,
          out |-> IF x.raised THEN <<>> ELSE mappedRow,
          ext |-> x.ext, error |-> x.error]

GetOneWith(variant, Tables, relationships, Extend, g) ==
    Only({GetOneOf(variant, g, FirstRow(g.out), x) :
            x \in {ExtendRows(variant, Tables, relationships, g.c, FirstRow(g.out),
                              Extend)}})

GetOne(variant, schema, Tables, relationships, c, where, Extend) ==
    Only({GetOneWith(variant, Tables, relationships, Extend, g) :
            g \in {GetWhere(variant, Name, schema, c, where)}})

\* ------------------------------------------------------------------ inputs
RenameMaps == {EmptyMap} \cup
              {[o \in {old} |-> new] : <<old, new>> \in {<<"B", "C">>, <<"B", "A">>, <<"A", "C">>}}
FailPoints == {"none", "create", "copy", "drop", "rename"}

\* The values a call may supply for a column: the full range for column A
\* outside a Batch, fewer for the other columns and inside a Batch callback.
AllValues == {UNDEFINED, NULL, "0", "1", "x"}
InsertValues == [col \in Cols |-> IF col = "A" THEN AllValues ELSE {NULL, "1"}]
UpdateValues == [col \in Cols |-> IF col = "A" THEN {NULL, "1", "x"} ELSE {NULL}]
BatchValues == [col \in Cols |-> IF col = "A" THEN {NULL, "1"} ELSE {"1"}]

Objects(keys, Values) ==
    UNION {{f \in [S -> AllValues] : \A col \in S : f[col] \in Values[col]} :
             S \in SUBSET keys}
Wheres == {NoWhere, ColumnWhere("A", NULL), ColumnWhere("A", "1")}
BatchWheres == {NoWhere}

\* What the database file holds when the handle is constructed: nothing
\* (memory mode, or a fresh directory) or a table written under an older schema.
Seed(cols, rows) ==
    [exists |-> TRUE, cols |-> cols, nn |-> {},
     dflt |-> [c \in cols |-> NULL], chk |-> [c \in cols |-> "none"],
     rows |-> rows]
SeedAB == Seed({"A", "B"}, <<[A |-> "1", B |-> "2"]>>)
PhysicalSeeds ==
    {NoTable,
     SeedAB,
     Seed({"A", "B"}, <<[A |-> NULL, B |-> "x"]>>),
     Seed({"B", "C"}, <<[B |-> "1", C |-> "2"]>>),
     Seed({"A", "C"}, <<[A |-> "1", C |-> "2"], [A |-> "2", C |-> NULL]>>)}

\* ------------------------------------------------------------- state machine
\* The change bookkeeping of a table: isHybrid, the ChangeCounter, whether
\* Timer milliseconds have passed since LastSave, whether the debounce
\* timer of scheduleSave is armed, and the rows the disk copy holds.
Threshold == 2000
\* The autosave state of the registry is kept with it: AutosaveEnabled,
\* AutosaveIntervalMs, the handle SaveDebounceTimer holds (0 for null), the
\* timeouts the runtime has pending and those whose delay has elapsed,
\* whether the interval of SaveIntervalTimer is running, whether a write
\* returned since the last save attempt, and whether Close was called.
NoChangeConfig == [isHybrid |-> FALSE, ChangeCounter |-> 0, TimerElapsed |-> FALSE,
                   SaveDebounceTimer |-> 0, disk |-> <<>>,
                   AutosaveEnabled |-> FALSE, AutosaveIntervalMs |-> 30000,
                   timeouts |-> {}, due |-> {}, SaveIntervalTimer |-> FALSE,
                   unsaved |-> FALSE, closed |-> FALSE]

NoCall == [op |-> "none", raised |-> FALSE, pre |-> <<>>, at |-> <<>>,
           preFk |-> FALSE, logStart |-> 0, values |-> EmptyMap, where |-> NoWhere,
           rename |-> EmptyMap, fail |-> "none",
           filter |-> NoFilter, clause |-> <<>>, params |-> <<>>, out |-> <<>>,
           saved |-> FALSE, Extend |-> <<>>, ext |-> <<>>, error |-> NoError,
           count |-> 0, thrown |-> "none", preCounter |-> 0]

Call(op, r, values, where, rename, fail) ==
    [op |-> op, raised |-> r.raised, pre |-> conn.tables, at |-> conn.tables,
     preFk |-> conn.foreign_keys,
     logStart |-> IF batch.active THEN Len(conn.log) ELSE 0,
     values |-> values, where |-> where, rename |-> rename, fail |-> fail,
     filter |-> NoFilter, clause |-> <<>>, params |-> <<>>, out |-> <<>>,
     saved |-> FALSE, Extend |-> <<>>, ext |-> <<>>, error |-> NoError,
     count |-> 0, thrown |-> "none", preCounter |-> ChangeConfig.ChangeCounter]

\* The statement log is kept per top-level call; calls made by a Batch
\* callback append to the log of the Batch.
Fresh == IF batch.active THEN conn ELSE [conn EXCEPT !.log = <<>>]

Rows(c) == c.tables[Name].rows

\* ------------------------------------------------------ change notification
\* Memory and disk modes keep no change bookkeeping; hybrid mode does.
Modes == {NoChangeConfig}
Hybrid == [NoChangeConfig EXCEPT !.isHybrid = TRUE, !.AutosaveEnabled = TRUE]

\* OptimaDB.SaveToDisk(), as the Change handler calls it: the tables are
\* written to the disk copy before the call returns.
SaveToDisk(cfg, c) == [cfg EXCEPT !.disk = Rows(c)]

\* saveToDisk: nothing outside hybrid mode.
saveToDisk(cfg, c) ==
    IF ~cfg.isHybrid THEN cfg ELSE [cfg EXCEPT !.disk = Rows(c), !.unsaved = FALSE]

\* clearTimeout(h): a pending timeout is cancelled, anything else ignored.
clearTimeout(cfg, h) == [cfg EXCEPT !.timeouts = @ \ {h}, !.due = @ \ {h}]

\* setTimeout returns a handle no pending timeout has.
setTimeout(cfg) ==
    IF cfg.timeouts = {} THEN 1
    ELSE 1 + CHOOSE h \in cfg.timeouts : \A g \in cfg.timeouts : g <= h

\* Mutant: the previous debounce timer is not cleared.
scheduleSave_KeepsPrevious(cfg) ==
    IF ~cfg.isHybrid THEN cfg
    ELSE IF ~cfg.AutosaveEnabled THEN cfg
    ELSE Only({[cfg EXCEPT !.SaveDebounceTimer = h, !.timeouts = @ \cup {h}] :
               h \in {setTimeout(cfg)}})

\* scheduleSave: clears the debounce timer it holds and arms a new one,
\* whose callback saves later.
scheduleSave(cfg) ==
    IF ~cfg.isHybrid THEN cfg
    ELSE IF ~cfg.AutosaveEnabled THEN cfg
    ELSE Only({[k EXCEPT !.SaveDebounceTimer = h, !.timeouts = @ \cup {h}] :
               <<k, h>> \in {<<k1, setTimeout(k1)>> :
                             k1 \in {IF cfg.SaveDebounceTimer # 0
                                     THEN clearTimeout(cfg, cfg.SaveDebounceTimer)
                                     ELSE cfg}}})

\* startAutosaveInterval, called by the constructor in hybrid mode.
startAutosaveInterval(cfg) ==
    IF ~cfg.isHybrid THEN cfg
    ELSE IF ~cfg.AutosaveEnabled THEN cfg
    ELSE IF cfg.AutosaveIntervalMs > 0 THEN [cfg EXCEPT !.SaveIntervalTimer = TRUE]
    ELSE cfg

\* Mutant: the threshold is compared with > instead of >=.
SaveDue_Late(cfg) == cfg.TimerElapsed \/ cfg.ChangeCounter + 1 > Threshold

\* The condition of the Change handler, after the counter was incremented.
SaveDue(cfg) == cfg.TimerElapsed \/ cfg.ChangeCounter + 1 >= Threshold

\* The listener of "Change": emit runs it before it returns.
ChangeHandler(cfg, c) ==
    IF SaveDue(cfg)
    THEN [SaveToDisk(cfg, c) EXCEPT !.ChangeCounter = 0, !.TimerElapsed = FALSE]
    ELSE [cfg EXCEPT !.ChangeCounter = @ + 1]

\* What a successful Insert, Update or Delete does before it returns:
\* OptimaTable calls scheduleSave, OptimaTB emits "Change" when hybrid.
Notify(variant, cfg, r) ==
    IF r.raised THEN cfg
    ELSE IF variant = "OptimaTable"
    THEN scheduleSave([cfg EXCEPT !.unsaved = cfg.isHybrid])
    ELSE IF cfg.isHybrid THEN ChangeHandler(cfg, r.c)
    ELSE cfg

\* A disk save ran inside the call.
SavedInCall(variant, cfg, r) ==
    ~r.raised /\ variant # "OptimaTable" /\ cfg.isHybrid /\ SaveDue(cfg)

\* The counter is followed for MaxChanges changes from 0 and for MaxChanges
\* changes on either side of Threshold.
CanCount ==
    ChangeConfig.isHybrid =>
        \/ ChangeConfig.ChangeCounter < MaxChanges
        \/ /\ ChangeConfig.ChangeCounter >= Threshold - MaxChanges
           /\ ChangeConfig.ChangeCounter < Threshold + MaxChanges

InitWith(variants, schemas, seeds) ==
    /\ impl \in variants
    /\ Schema \in schemas
    /\ \E seed \in seeds, fk \in BOOLEAN :
         LET tables == [n \in TableNames |-> IF n = Name THEN seed ELSE NoTable]
         IN conn = [tables |-> tables, inTxn |-> FALSE, snap |-> tables,
                    foreign_keys |-> fk, log |-> <<>>]
    /\ constructed = FALSE
    /\ batch = [active |-> FALSE, nops |-> 0, cfg |-> NoChangeConfig]
    /\ last = NoCall
    /\ extendRelationshipsMap = EmptyMap

InitOn(seeds) ==
    /\ InitWith({"OptimaTable", "OptimaTB"}, DeclaredSchemas, seeds)
    /\ query = NoFilter
    /\ SchemaRef = EmptyMap
    /\ ChangeConfig \in Modes

Init == InitOn(PhysicalSeeds)

\* new OptimaDB(Schema): InitTable, then the start-up MigrateSchema(); a
\* throwing constructor yields no handle.
Construct ==
    /\ ~constructed
    /\ \E fail \in FailPoints :
       \E i \in {InitSiblings(impl, SchemaRef, InitTable(impl, Schema, Fresh))} :
       \E m \in {MigrateSchema(impl, Schema, i, EmptyMap, fail)} :
       \E r \in {IF m.raised THEN m ELSE MigrateSiblings(impl, SchemaRef, m.c)} :
            /\ conn' = r.c
            /\ constructed' = ~r.raised
            /\ last' = [Call("Construct", r, EmptyMap, NoWhere, EmptyMap, fail)
                          EXCEPT !.pre = i.tables, !.at = i.tables,
                                 !.logStart = Len(i.log)]
            /\ ChangeConfig' = IF ~r.raised /\ impl = "OptimaTable"
                               THEN startAutosaveInterval(ChangeConfig)
                               ELSE ChangeConfig
            /\ extendRelationshipsMap' = IF r.raised THEN EmptyMap
                                         ELSE extendRelationships(SchemaRef)
    /\ UNCHANGED <<impl, Schema, batch, query, SchemaRef>>

\* The calls, over the inputs given.
DoMigrateSchema(renames, fails) ==
    /\ \E rename \in renames, fail \in fails :
         \E r \in {MigrateSchema(impl, Schema, Fresh, rename, fail)} :
            /\ conn' = r.c
            /\ last' = Call("MigrateSchema", r, EmptyMap, NoWhere, rename, fail)
    /\ UNCHANGED <<impl, Schema, constructed, query, SchemaRef, extendRelationshipsMap,
                   ChangeConfig>>

DoInsert(Values) ==
    /\ Len(Rows(conn)) < MaxRows
    /\ \E v \in Objects(ObjectKeys(Schema), Values) :
         \E r \in {Insert(impl, Schema, Fresh, v)} :
            /\ conn' = r.c
            /\ last' = [Call("Insert", r, v, NoWhere, EmptyMap, "none")
                          EXCEPT !.saved = SavedInCall(impl, ChangeConfig, r)]
            /\ ChangeConfig' = Notify(impl, ChangeConfig, r)
    /\ CanCount
    /\ UNCHANGED <<impl, Schema, constructed, query, SchemaRef, extendRelationshipsMap>>

DoUpdate(Values, wheres) ==
    /\ \E values \in Objects(ObjectKeys(Schema), Values), where \in wheres :
         \E r \in {Update(impl, Schema, Fresh, values, where)} :
            /\ conn' = r.c
            /\ last' = [Call("Update", r, values, where, EmptyMap, "none")
                          EXCEPT !.saved = SavedInCall(impl, ChangeConfig, r)]
            /\ ChangeConfig' = Notify(impl, ChangeConfig, r)
    /\ CanCount
    /\ UNCHANGED <<impl, Schema, constructed, query, SchemaRef, extendRelationshipsMap>>

DoDelete(wheres) ==
    /\ \E where \in wheres :
         \E r \in {Delete(impl, Schema, Fresh, where)} :
            /\ conn' = r.c
            /\ last' = [Call("Delete", r, EmptyMap, where, EmptyMap, "none")
                          EXCEPT !.saved = SavedInCall(impl, ChangeConfig, r)]
            /\ ChangeConfig' = Notify(impl, ChangeConfig, r)
    /\ CanCount
    /\ UNCHANGED <<impl, Schema, constructed, query, SchemaRef, extendRelationshipsMap>>

\* new OptimaTB(...) of table.ts and part_002: InitTable only.  The table
\* keeps the physical columns it has until MigrateSchema(table, renames)
\* is called on it.
ConstructTable ==
    /\ ~constructed /\ impl # "OptimaTable"
    /\ \E i \in {InitSiblings(impl, SchemaRef, InitTable(impl, Schema, Fresh))} :
         /\ conn' = i
         /\ constructed' = TRUE
         /\ last' = Call("ConstructTable", [raised |-> FALSE], EmptyMap, NoWhere,
                         EmptyMap, "none")
         /\ extendRelationshipsMap' = extendRelationships(SchemaRef)
    /\ UNCHANGED <<impl, Schema, batch, query, SchemaRef, ChangeConfig>>

TopLevel == constructed /\ ~ChangeConfig.closed /\ ~batch.active /\ UNCHANGED batch
InCallback == /\ batch.active /\ batch.nops < MaxBatchOps
              /\ batch' = [batch EXCEPT !.nops = @ + 1]

\* The change bookkeeping as it was when the Batch in progress (or the last
\* Batch) was entered is kept in batch.cfg.
\* Calls made by the application outside a Batch.
CallMigrateSchema == TopLevel /\ DoMigrateSchema(RenameMaps, FailPoints)
CallInsert == TopLevel /\ DoInsert(InsertValues)
CallUpdate == TopLevel /\ DoUpdate(UpdateValues, Wheres)
CallDelete == TopLevel /\ DoDelete(Wheres)

CallInsertMany ==
    /\ TopLevel
    /\ \E v1 \in Objects(ObjectKeys(Schema), BatchValues),
          v2 \in {EmptyMap, [c \in ObjectKeys(Schema) |-> "1"]} :
         \E r \in {InsertMany(impl, Schema, Fresh, <<v1, v2>>)} :
            /\ Len(Rows(r.c)) <= MaxRows + 1
            /\ conn' = r.c
            /\ last' = Call("InsertMany", r, v2, NoWhere, EmptyMap, "none")
    /\ UNCHANGED <<impl, Schema, constructed, query, SchemaRef, extendRelationshipsMap,
                   ChangeConfig>>

\* Batch(fn) is entered: BEGIN runs before the try block.
BatchBegin ==
    /\ constructed /\ ~batch.active
    /\ LET b == Begin(Fresh)
       IN /\ conn' = b.c
          /\ batch' = [active |-> ~b.err, nops |-> 0, cfg |-> ChangeConfig]
          /\ last' = Call("BatchBegin", [raised |-> b.err], EmptyMap, NoWhere,
                          EmptyMap, "none")
    /\ UNCHANGED <<impl, Schema, constructed, query, SchemaRef, extendRelationshipsMap,
                   ChangeConfig>>

\* Calls made by the callback fn of the Batch in progress.
BatchMigrateSchema == InCallback /\ DoMigrateSchema({EmptyMap}, {"none"})
BatchInsert == InCallback /\ DoInsert(BatchValues)
BatchUpdate == InCallback /\ DoUpdate(BatchValues, BatchWheres)
BatchDelete == InCallback /\ DoDelete(BatchWheres)

\* Batch(fn2) called by the callback of the Batch in progress: its BEGIN
\* runs before its try block, so when it fails fn2 is not called and no
\* catch block of the inner Batch runs.
BeginError == "cannot start a transaction within a transaction"
FnError == "fn"

BatchNested ==
    /\ InCallback
    /\ \E b \in {Begin(conn)} :
         /\ conn' = b.c
         /\ last' = [Call("Batch", [raised |-> b.err], EmptyMap, NoWhere, EmptyMap, "none")
                       EXCEPT !.thrown = IF b.err THEN BeginError ELSE "none"]
    /\ UNCHANGED <<impl, Schema, constructed, query, SchemaRef, extendRelationshipsMap,
                   ChangeConfig>>

\* The error that leaves fn: its own, or the one of the call it made last
\* when that call raised and fn did not catch it.
Escaping ==
    {FnError} \cup (IF batch.nops > 0 /\ last.raised /\ last.thrown # "none"
                    THEN {last.thrown} ELSE {})

\* fn returns normally: COMMIT (a failing COMMIT lands in the catch block).
BatchReturn ==
    /\ batch.active
    /\ LET k == BatchCommit(conn)
           r == IF k.err THEN [c |-> BatchCatch(k.c).c, raised |-> TRUE]
                ELSE [c |-> k.c, raised |-> FALSE]
       IN /\ conn' = r.c
          /\ last' = [Call("BatchReturn", r, EmptyMap, NoWhere, EmptyMap, "none")
                        EXCEPT !.pre = conn.snap, !.logStart = 0]
          /\ ChangeConfig' = IF ~r.raised /\ impl = "OptimaTable"
                             THEN scheduleSave(ChangeConfig) ELSE ChangeConfig
    /\ batch' = [batch EXCEPT !.active = FALSE, !.nops = 0]
    /\ UNCHANGED <<impl, Schema, constructed, query, SchemaRef, extendRelationshipsMap>>

\* fn throws (its own error, or one of its calls raised and it let the
\* error escape): ROLLBACK, then the error is thrown again.
BatchThrow ==
    /\ batch.active
    /\ \E e \in Escaping :
       LET r == [c |-> BatchCatch(conn).c, raised |-> TRUE]
       IN /\ conn' = r.c
          /\ last' = [Call("BatchThrow", r, EmptyMap, NoWhere, EmptyMap, "none")
                        EXCEPT !.pre = conn.snap, !.logStart = 0, !.thrown = e]
    /\ batch' = [batch EXCEPT !.active = FALSE, !.nops = 0]
    /\ UNCHANGED <<impl, Schema, constructed, query, SchemaRef, extendRelationshipsMap,
                   ChangeConfig>>

\* ------------------------------------------------------------ filter inputs
Op(name, node) == Keyed(name, node)
Ops(entries) == ObjectOf("", entries)
Filter(entries) == ObjectOf("", entries)
One == Scalar("", "1")
Two == Scalar("", "2")
Null == Scalar("", NULL)

\* Conditions on an integer column.
IntConds ==
    {One, Two, Null, Arr12, Arr0,
     Ops(<<Op("$eq", One)>>), Ops(<<Op("$ne", One)>>), Ops(<<Op("$ne", Null)>>),
     Ops(<<Op("$gt", One)>>), Ops(<<Op("$gte", One), Op("$lt", Two)>>),
     Ops(<<Op("$lte", One)>>), Ops(<<Op("$like", One)>>),
     Ops(<<Op("$in", Arr0)>>), Ops(<<Op("$in", Arr12)>>), Ops(<<Op("$in", One)>>),
     Ops(<<Op("$nin", Arr0)>>), Ops(<<Op("$nin", Arr1)>>),
     Ops(<<Op("$between", Arr12)>>), Ops(<<Op("$between", Arr1)>>),
     Ops(<<Op("$between", Arr0)>>), Ops(<<Op("$between", One)>>),
     Ops(<<Op("$is", Null)>>), Ops(<<Op("$is", One)>>),
     Ops(<<Op("$not", Ops(<<Op("$eq", One)>>))>>), Ops(<<Op("$not", Arr1)>>),
     Ops(<<Op("$not", One)>>), Ops(<<Op("$not", Null)>>)}

\* Conditions on a typed column: the literals of its type, empty lists and
\* the operators that take them.
TypedConds(type) ==
    CASE type = "INT" -> IntConds
      [] type = "JSON" ->
           {ObjF1, ObjF1G2, Null, Arr0, Ops(<<Op("$eq", ObjF1)>>),
            Ops(<<Op("$in", Arr0)>>), Ops(<<Op("$nin", Arr0)>>)}
      [] type = "ARRAY" ->
           {Arr12, Arr1, Arr0, Null, Ops(<<Op("$eq", Arr12)>>),
            Ops(<<Op("$in", Arr0)>>), Ops(<<Op("$nin", Arr0)>>), Ops(<<Op("$in", Arr1)>>),
            Ops(<<Op("$includes", One)>>)}
      [] type = "BOOLEAN" ->
           {Scalar("", "true"), Scalar("", "false"), Null,
            Ops(<<Op("$in", Arr0)>>), Ops(<<Op("$nin", Arr0)>>)}
      [] type = "DATETIME" ->
           {Date1, Scalar("", Iso), Null, Ops(<<Op("$eq", Date1)>>),
            Ops(<<Op("$in", Arr0)>>), Ops(<<Op("$nin", Arr0)>>)}
      [] OTHER -> {One, Null}

\* {col: condition}
ColumnFilters(schema) ==
    {Filter(<<Keyed(col, cond)>>) :
       <<col, cond>> \in UNION {{<<c, n>> : n \in TypedConds(schema[c].Type)} :
                                 c \in ObjectKeys(schema)}}

\* The filters $or and $and are given as children: equalities and IS NULL
\* on each column, the empty filter and one filter with two keys.
ChildFilters(schema) ==
    {NoFilter, Filter(<<Keyed("A", One), Keyed("A", Two)>>)}
      \cup {Filter(<<Keyed(col, v)>>) : col \in ObjectKeys(schema), v \in {One, Two, Null}}

LogicEntries(schema) ==
    {ArrayOf(k, <<x, y>>) : k \in {"$or", "$and"}, x \in ChildFilters(schema),
                            y \in {Filter(<<Keyed("B", v)>>) : v \in {Two, Null}}
                                     \cup {NoFilter}}
      \cup {Keyed(k, x) : k \in {"$or", "$and"}, x \in ChildFilters(schema)}

\* {$or: [...]}, {col: v, $or: [...]}, {$or: [...], col: v} and one level of
\* nesting {$or: [{$and: [...]}, child]}.
LogicFilters(schema) ==
    {Filter(<<l>>) : l \in LogicEntries(schema)}
      \cup {Filter(<<Keyed("A", v), l>>) : v \in {One, Two}, l \in LogicEntries(schema)}
      \cup {Filter(<<l, Keyed("A", v)>>) : v \in {One}, l \in LogicEntries(schema)}
      \cup {Filter(<<ArrayOf("$or", <<Filter(<<ArrayOf("$and", <<x, y>>)>>), x>>)>>) :
              x \in {Filter(<<Keyed("A", One)>>), Filter(<<Keyed("A", Two)>>)},
              y \in {Filter(<<Keyed(col, Two)>>) : col \in ObjectKeys(schema)}}

Filters(schema) ==
    {NoFilter} \cup ColumnFilters(schema)
      \cup (IF schema = SchemaTyped("INT") THEN LogicFilters(schema) ELSE {})

\* The operands X of {col: {$not: X}}: scalars, lists and operator objects
\* without a null in them.
NotOperands(type) ==
    CASE type = "INT" ->
           {One, Two, Arr0, Arr1, Arr12,
            Ops(<<Op("$eq", One)>>), Ops(<<Op("$ne", One)>>), Ops(<<Op("$gt", One)>>),
            Ops(<<Op("$gte", One), Op("$lt", Two)>>), Ops(<<Op("$like", One)>>),
            Ops(<<Op("$in", Arr1)>>), Ops(<<Op("$in", Arr0)>>), Ops(<<Op("$nin", Arr1)>>),
            Ops(<<Op("$between", Arr12)>>), Ops(<<Op("$not", One)>>),
            Ops(<<Op("$not", Arr1)>>)}
      [] type = "ARRAY" ->
           {Arr0, Arr1, Arr12, Ops(<<Op("$eq", Arr12)>>), Ops(<<Op("$in", Arr1)>>)}
      [] OTHER -> {One}

\* Operands that hold a null, and the operator object without operators.
NullOperands == {ArrayOf("", <<One, Null>>), Ops(<<Op("$eq", Null)>>), Ops(<<>>)}

\* {col: {$not: X}}
NotFilters(schema) ==
    {Filter(<<Keyed(col, Ops(<<Op("$not", X)>>))>>) :
       <<col, X>> \in UNION {{<<c, n>> : n \in NotOperands(schema[c].Type)
                                            \cup (IF c = "A" THEN NullOperands ELSE {})} :
                              c \in ObjectKeys(schema)}}

\* The rows a typed table is given.
TypedValues(type) ==
    CASE type = "INT" -> {"2", NULL}
      [] type = "JSON" -> {JsValue(ObjF1), JsValue(ObjF1G2), NULL}
      [] type = "ARRAY" -> {JsValue(Arr12), JsValue(Arr0), NULL}
      [] type = "BOOLEAN" -> {"true", "false", NULL}
      [] type = "DATETIME" -> {JsValue(Date1), NULL}
      [] OTHER -> {NULL}
TypedRows(schema) ==
    {r \in [ObjectKeys(schema) -> UNION {TypedValues(schema[c].Type) : c \in ObjectKeys(schema)}] :
       /\ r["A"] \in {"1", "2"}
       /\ \A c \in ObjectKeys(schema) : r[c] \in TypedValues(schema[c].Type)}

\* Insert(Values) with a value for every declared column.
CallInsertRow ==
    /\ TopLevel
    /\ Len(Rows(conn)) < MaxRows
    /\ \E v \in TypedRows(Schema) :
         \E r \in {Insert(impl, Schema, Fresh, v)} :
            /\ conn' = r.c
            /\ last' = [Call("Insert", r, v, NoWhere, EmptyMap, "none")
                          EXCEPT !.saved = SavedInCall(impl, ChangeConfig, r)]
            /\ ChangeConfig' = Notify(impl, ChangeConfig, r)
    /\ CanCount
    /\ UNCHANGED <<impl, Schema, constructed, query, SchemaRef, extendRelationshipsMap>>

\* Get(where), with the filter the application reads with.
CallGet ==
    /\ TopLevel
    /\ \E r \in {Get(impl, Schema, Fresh, query)} :
          /\ conn' = r.c
          /\ last' = [Call("Get", r, EmptyMap, NoWhere, EmptyMap, "none")
                        EXCEPT !.filter = query, !.clause = r.clause,
                               !.params = r.params, !.out = r.out]
    /\ UNCHANGED <<impl, Schema, constructed, query, SchemaRef, extendRelationshipsMap,
                   ChangeConfig>>

\* Count(where), Delete(where) and Update(values, where) with the filter.
CallCount ==
    /\ TopLevel
    /\ \E r \in {CountWhere(impl, Schema, Fresh, query)} :
          /\ conn' = r.c
          /\ last' = [Call("Count", r, EmptyMap, NoWhere, EmptyMap, "none")
                        EXCEPT !.filter = query, !.clause = r.clause,
                               !.params = r.params, !.count = r.count]
    /\ UNCHANGED <<impl, Schema, constructed, query, SchemaRef, extendRelationshipsMap,
                   ChangeConfig>>

CallDeleteWhere ==
    /\ TopLevel
    /\ \E r \in {DeleteWhere(impl, Schema, Fresh, query)} :
          /\ conn' = r.c
          /\ last' = [Call("Delete", r, EmptyMap, NoWhere, EmptyMap, "none")
                        EXCEPT !.filter = query, !.clause = r.clause, !.params = r.params,
                               !.saved = SavedInCall(impl, ChangeConfig, r)]
          /\ ChangeConfig' = Notify(impl, ChangeConfig, r)
    /\ CanCount
    /\ UNCHANGED <<impl, Schema, constructed, query, SchemaRef, extendRelationshipsMap>>

WhereValues == {[B |-> "1"]}
CallUpdateWhere ==
    /\ TopLevel
    /\ \E values \in WhereValues :
       \E r \in {UpdateWhere(impl, Schema, Fresh, values, query)} :
          /\ conn' = r.c
          /\ last' = [Call("Update", r, values, NoWhere, EmptyMap, "none")
                        EXCEPT !.filter = query, !.clause = r.clause, !.params = r.params,
                               !.saved = SavedInCall(impl, ChangeConfig, r)]
          /\ ChangeConfig' = Notify(impl, ChangeConfig, r)
    /\ CanCount
    /\ UNCHANGED <<impl, Schema, constructed, query, SchemaRef, extendRelationshipsMap>>

\* Filters with an $or or $and whose children list is empty, alone and next
\* to a column key, and filters to compare them with.
EmptyLogicFilters ==
    {NoFilter, Filter(<<Keyed("A", One)>>), Filter(<<ArrayOf("$or", <<Filter(<<Keyed("A", One)>>)>>)>>)}
      \cup {Filter(<<ArrayOf(k, <<>>)>>) : k \in {"$or", "$and"}}
      \cup {Filter(<<Keyed("A", One), ArrayOf(k, <<>>)>>) : k \in {"$or", "$and"}}
      \cup {Filter(<<ArrayOf(k, <<>>), Keyed("A", One)>>) : k \in {"$or", "$and"}}

\* ------------------------------------------------------------ extend inputs
\* The sibling S with its own key A and a field F that carries no
\* reference, a reference to T.A of either cardinality, or a reference
\* whose table has no name.
References == {NoReference,
               [TableName |-> Name, Field |-> "A", Type |-> "Many"],
               [TableName |-> Name, Field |-> "A", Type |-> "One"],
               [TableName |-> UNDEFINED, Field |-> "A", Type |-> "Many"]}
SiblingSchema(ref) ==
    [c \in {"A", "F"} |->
       IF c = "A" \/ ref = NoReference THEN Field("INT", FALSE, NULL, "none")
       ELSE reference(Field("INT", FALSE, NULL, "none"), ref.TableName, ref.Field, ref.Type)]

\* reference of part_001 throws at declaration when it finds no table name.
SchemaRefs(variant) ==
    {[n \in {Sibling} |-> SiblingSchema(ref)] :
       ref \in {r \in References : variant = "OptimaTable" => r.TableName # UNDEFINED}}

ExtendWheres == {NoWhere, ColumnWhere("A", "1")}
Extends == {<<>>, <<Sibling>>, <<"X">>}
OwnerRows == {[A |-> a, B |-> NULL] : a \in {"1", "2"}}
SiblingRows == {[A |-> "1", F |-> "1"], [A |-> "2", F |-> "1"],
                [A |-> "1", F |-> "2"], [A |-> "2", F |-> NULL]}

\* Insert of a row with a new key into the table.
CallInsertOwner ==
    /\ TopLevel
    /\ Len(Rows(conn)) < MaxRows
    /\ \E v \in OwnerRows :
         /\ \A i \in 1..Len(Rows(conn)) : Rows(conn)[i]["A"] # v["A"]
         /\ LET r == Insert(impl, Schema, Fresh, v)
            IN /\ conn' = r.c
               /\ last' = Call("Insert", r, v, NoWhere, EmptyMap, "none")
               /\ ChangeConfig' = Notify(impl, ChangeConfig, r)
    /\ UNCHANGED <<impl, Schema, constructed, query, SchemaRef, extendRelationshipsMap>>

\* Insert into the sibling table.
CallInsertSibling ==
    /\ TopLevel
    /\ Sibling \in DOMAIN SchemaRef
    /\ Len(conn.tables[Sibling].rows) < MaxSiblingRows
    /\ \E v \in SiblingRows :
         LET r == InsertSibling(impl, SchemaRef[Sibling], Fresh, v)
         IN /\ conn' = r.c
            /\ last' = Call("InsertSibling", r, v, NoWhere, EmptyMap, "none")
            /\ ChangeConfig' = Notify(impl, ChangeConfig, r)
    /\ UNCHANGED <<impl, Schema, constructed, query, SchemaRef, extendRelationshipsMap>>

\* Get(where, {Extend}).
CallGetExtend ==
    /\ TopLevel
    /\ \E Extend \in Extends, where \in ExtendWheres :
       \E r \in {GetExtend(impl, Schema, SchemaRef, extendRelationshipsMap, Fresh, where,
                            Extend)} :
            /\ conn' = r.c
            /\ last' = [Call("Get", r, EmptyMap, where, EmptyMap, "none")
                          EXCEPT !.out = r.out, !.Extend = Extend,
                                 !.ext = r.ext, !.error = r.error]
    /\ UNCHANGED <<impl, Schema, constructed, query, SchemaRef, extendRelationshipsMap,
                   ChangeConfig>>

\* GetOne(where, {Extend}); OptimaTable.GetOne has no second parameter.
CallGetOne ==
    /\ TopLevel
    /\ \E Extend \in IF impl = "OptimaTable" THEN {<<>>} ELSE Extends, where \in ExtendWheres :
       \E r \in {GetOne(impl, Schema, SchemaRef, extendRelationshipsMap, Fresh, where,
                         Extend)} :
            /\ conn' = r.c
            /\ last' = [Call("GetOne", r, EmptyMap, where, EmptyMap, "none")
                          EXCEPT !.out = r.out, !.Extend = Extend,
                                 !.ext = r.ext, !.error = r.error]
    /\ UNCHANGED <<impl, Schema, constructed, query, SchemaRef, extendRelationshipsMap,
                   ChangeConfig>>

Next ==
    \/ Construct
    \/ CallMigrateSchema
    \/ CallInsert
    \/ CallInsertMany
    \/ CallUpdate
    \/ CallDelete
    \/ CallInsertRow
    \/ CallGet
    \/ BatchBegin
    \/ BatchMigrateSchema
    \/ BatchInsert
    \/ BatchUpdate
    \/ BatchDelete
    \/ BatchReturn
    \/ BatchThrow

Spec == Init /\ [][Next]_vars

\* The migration engine alone: construction over every database file,
\* then migrations with and without a rename map.
NextMigration ==
    \/ Construct
    \/ CallMigrateSchema

SpecMigration == Init /\ [][NextMigration]_vars

\* Migration with rename maps, also on tables that were opened without the
\* start-up migration.
InitRename ==
    /\ InitWith(Revisions, DeclaredSchemas, PhysicalSeeds)
    /\ query = NoFilter
    /\ SchemaRef = EmptyMap
    /\ ChangeConfig = NoChangeConfig

NextRename ==
    \/ Construct
    \/ ConstructTable
    \/ CallMigrateSchema

SpecRename == InitRename /\ [][NextRename]_vars

\* Single-statement CRUD on a constructed handle.
InitCrud == InitOn({NoTable, SeedAB})

NextCrud ==
    \/ Construct
    \/ CallInsert
    \/ CallUpdate
    \/ CallDelete

SpecCrud == InitCrud /\ [][NextCrud]_vars

\* Batch and InsertMany.
NextBatch ==
    \/ Construct
    \/ CallInsertMany
    \/ BatchBegin
    \/ BatchMigrateSchema
    \/ BatchInsert
    \/ BatchUpdate
    \/ BatchDelete
    \/ BatchReturn
    \/ BatchThrow

SpecBatch == InitCrud /\ [][NextBatch]_vars

\* Reads with filters: a fresh database, typed rows inserted, then Get.
InitFilter ==
    /\ InitWith(Revisions, TypedSchemas, {NoTable})
    /\ conn.foreign_keys
    /\ query \in Filters(Schema)
    /\ SchemaRef = EmptyMap
    /\ ChangeConfig = NoChangeConfig

NextFilter ==
    \/ Construct
    \/ CallInsertRow
    \/ CallGet

SpecFilter == InitFilter /\ [][NextFilter]_vars

\* Reads that extend the rows with the rows of a sibling table.
InitExtend ==
    /\ InitWith(Revisions, {SchemaTyped("INT")}, {NoTable})
    /\ query = NoFilter
    /\ SchemaRef \in SchemaRefs(impl)
    /\ ChangeConfig = NoChangeConfig

NextExtend ==
    \/ Construct
    \/ CallInsertOwner
    \/ CallInsertSibling
    \/ CallGetExtend
    \/ CallGetOne

SpecExtend == InitExtend /\ [][NextExtend]_vars

\* Hybrid mode: CRUD on a constructed handle while time passes and the
\* timers of the registry fire.
InitHybrid ==
    /\ InitWith(Revisions, {SchemaAB}, {NoTable})
    /\ query = NoFilter
    /\ SchemaRef = EmptyMap
    /\ ChangeConfig = Hybrid

\* Timer milliseconds have passed since LastSave.
Tick ==
    /\ constructed /\ ~batch.active
    /\ ChangeConfig.isHybrid /\ ~ChangeConfig.TimerElapsed
    /\ impl # "OptimaTable"
    /\ ChangeConfig' = [ChangeConfig EXCEPT !.TimerElapsed = TRUE]
    /\ UNCHANGED <<impl, Schema, conn, constructed, batch, last, query, SchemaRef,
                   extendRelationshipsMap>>

\* AutosaveDebounceMs have passed since a pending timeout was set.
DebounceElapses ==
    /\ \E h \in ChangeConfig.timeouts \ ChangeConfig.due :
         ChangeConfig' = [ChangeConfig EXCEPT !.due = @ \cup {h}]
    /\ UNCHANGED <<impl, Schema, conn, constructed, batch, last, query, SchemaRef,
                   extendRelationshipsMap>>

\* The callback of a debounce timer: saveToDiskSafe, between two calls.
\* SaveDebounceTimer keeps the handle of the timer that fired.
DebounceFires ==
    /\ constructed /\ ~batch.active
    /\ \E h \in ChangeConfig.due :
         ChangeConfig' = saveToDisk(clearTimeout(ChangeConfig, h), conn)
    /\ UNCHANGED <<impl, Schema, conn, constructed, batch, last, query, SchemaRef,
                   extendRelationshipsMap>>

\* The callback of the interval timer: saveToDiskSafe, between two calls.
IntervalFires ==
    /\ constructed /\ ~batch.active
    /\ ChangeConfig.SaveIntervalTimer
    /\ ChangeConfig' = saveToDisk(ChangeConfig, conn)
    /\ UNCHANGED <<impl, Schema, conn, constructed, batch, last, query, SchemaRef,
                   extendRelationshipsMap>>

\* The calls the application makes in hybrid mode.
HybridValues == [col \in Cols |-> {"1"}]
HybridInsert == TopLevel /\ DoInsert(HybridValues)
HybridUpdate == TopLevel /\ DoUpdate(HybridValues, BatchWheres)
HybridDelete == TopLevel /\ DoDelete(BatchWheres)

NextHybrid ==
    \/ Construct
    \/ HybridInsert
    \/ HybridUpdate
    \/ HybridDelete
    \/ Tick
    \/ DebounceElapses
    \/ DebounceFires

SpecHybrid == InitHybrid /\ [][NextHybrid]_vars

\* A Batch whose callback calls Batch.
NextNested ==
    \/ Construct
    \/ BatchBegin
    \/ BatchInsert
    \/ BatchNested
    \/ BatchReturn
    \/ BatchThrow

SpecNested == InitCrud /\ [][NextNested]_vars

\* Hybrid mode of table.ts and part_002 with the counter close to Threshold,
\* as it is after that many changes without a save.
InitCounter ==
    /\ InitWith({"OptimaTB", Part002}, {SchemaAB}, {NoTable})
    /\ conn.foreign_keys
    /\ query = NoFilter
    /\ SchemaRef = EmptyMap
    /\ \E n \in {0} \cup (Threshold - MaxChanges)..(Threshold - 1) :
         ChangeConfig = [Hybrid EXCEPT !.ChangeCounter = n]

\* An Insert whose Change handler calls SaveToDisk, and SaveToDisk throws:
\* the row is written and the counter incremented, the two assignments
\* after the call are skipped, and emit passes the error on to Insert.
InsertSaveThrows ==
    /\ TopLevel
    /\ impl # "OptimaTable" /\ ChangeConfig.isHybrid
    /\ SaveDue(ChangeConfig) /\ CanCount
    /\ Len(Rows(conn)) < MaxRows
    /\ \E v \in Objects(ObjectKeys(Schema), HybridValues) :
         \E r \in {Insert(impl, Schema, Fresh, v)} :
            /\ ~r.raised
            /\ conn' = r.c
            /\ last' = Call("Insert", [raised |-> TRUE], v, NoWhere, EmptyMap, "none")
            /\ ChangeConfig' = [ChangeConfig EXCEPT !.ChangeCounter = @ + 1]
    /\ UNCHANGED <<impl, Schema, constructed, query, SchemaRef, extendRelationshipsMap>>

NextCounter ==
    \/ Construct
    \/ HybridInsert
    \/ HybridUpdate
    \/ HybridDelete
    \/ InsertSaveThrows
    \/ Tick

SpecCounter == InitCounter /\ [][NextCounter]_vars

\* Siblings with two fields F and G, declared in this order: F with or
\* without a Many reference to T.A, G with or without a One reference to
\* T.A; T itself with or without a field that references T.  Tables holds
\* the declaration of T as well.
ReferencesF == {NoReference, [TableName |-> Name, Field |-> "A", Type |-> "Many"]}
ReferencesG == {NoReference, [TableName |-> Name, Field |-> "A", Type |-> "One"]}
EdgeSibling(refF, refG) ==
    [c \in {"A", "F", "G"} |->
       LET ref == IF c = "F" THEN refF ELSE IF c = "G" THEN refG ELSE NoReference
       IN IF ref = NoReference THEN Field("INT", FALSE, NULL, "none")
          ELSE reference(Field("INT", FALSE, NULL, "none"), ref.TableName, ref.Field,
                         ref.Type)]
SelfSchema ==
    [SchemaTyped("INT") EXCEPT !["B"] = reference(@, Name, "A", "Many")]
EdgeRows == {[A |-> "1", F |-> "1", G |-> "2"], [A |-> "2", F |-> "2", G |-> "2"]}

InitEdges ==
    /\ InitWith(Revisions, {SchemaTyped("INT"), SelfSchema}, {NoTable})
    /\ ~conn.foreign_keys
    /\ query = NoFilter
    /\ \E refF \in ReferencesF, refG \in ReferencesG :
         SchemaRef = [n \in {Name, Sibling} |->
                        IF n = Name THEN Schema ELSE EdgeSibling(refF, refG)]
    /\ ChangeConfig = NoChangeConfig

CallInsertEdgeSibling ==
    /\ TopLevel
    /\ Len(conn.tables[Sibling].rows) < MaxSiblingRows
    /\ \E v \in EdgeRows :
       \E r \in {InsertSibling(impl, SchemaRef[Sibling], Fresh, v)} :
            /\ conn' = r.c
            /\ last' = Call("InsertSibling", r, v, NoWhere, EmptyMap, "none")
            /\ ChangeConfig' = Notify(impl, ChangeConfig, r)
    /\ UNCHANGED <<impl, Schema, constructed, query, SchemaRef, extendRelationshipsMap>>

\* MigrateSchema() without a rename map.
CallMigrate == TopLevel /\ DoMigrateSchema({EmptyMap}, {"none"})

\* Update and Delete of rows that other rows may reference, where foreign
\* keys are not enforced.
UpdateReferenced == ~conn.foreign_keys /\ CallUpdateWhere
DeleteReferenced == ~conn.foreign_keys /\ CallDeleteWhere

NextEdges ==
    \/ Construct
    \/ CallInsertOwner
    \/ CallInsertEdgeSibling
    \/ CallGetExtend
    \/ UpdateReferenced
    \/ DeleteReferenced
    \/ CallMigrate

SpecEdges == InitEdges /\ [][NextEdges]_vars

\* The registry of database.ts under every mode and autosave option.
AutosaveConfigs ==
    {[NoChangeConfig EXCEPT !.isHybrid = h, !.AutosaveEnabled = a,
                            !.AutosaveIntervalMs = ms] :
        h \in BOOLEAN, a \in BOOLEAN, ms \in {0, 30000}}

InitAutosave ==
    /\ InitWith({"OptimaTable"}, {SchemaAB}, {NoTable})
    /\ conn.foreign_keys
    /\ query = NoFilter
    /\ SchemaRef = EmptyMap
    /\ ChangeConfig \in AutosaveConfigs

\* Close, first block: both timers are cleared and the fields set to null.
CloseTimers(cfg) ==
    [(IF cfg.SaveDebounceTimer # 0 THEN clearTimeout(cfg, cfg.SaveDebounceTimer) ELSE cfg)
        EXCEPT !.SaveDebounceTimer = 0, !.SaveIntervalTimer = FALSE]

\* Close: the timers are stopped, hybrid mode saves, the connection is
\* closed; a connection that stays busy makes Close throw at the end.
Close ==
    /\ TopLevel
    /\ \E busy \in BOOLEAN :
       \E k \in {CloseTimers(ChangeConfig)} :
         /\ ChangeConfig' = [saveToDisk(k, conn) EXCEPT !.closed = TRUE]
         /\ last' = Call("Close", [raised |-> busy], EmptyMap, NoWhere, EmptyMap, "none")
    /\ UNCHANGED <<impl, Schema, conn, constructed, query, SchemaRef, extendRelationshipsMap>>

\* SaveNow: saveToDiskSafe.  On a closed connection the save fails and the
\* error is swallowed.
SaveNow ==
    /\ constructed /\ ~batch.active
    /\ ChangeConfig' = IF ChangeConfig.closed THEN ChangeConfig
                       ELSE saveToDisk(ChangeConfig, conn)
    /\ last' = Call("SaveNow", [raised |-> FALSE], EmptyMap, NoWhere, EmptyMap, "none")
    /\ UNCHANGED <<impl, Schema, conn, constructed, batch, query, SchemaRef,
                   extendRelationshipsMap>>

\* An Insert on a closed connection: prepare throws, nothing else runs.
InsertAfterClose ==
    /\ constructed /\ ChangeConfig.closed
    /\ last' = Call("Insert", [raised |-> TRUE], EmptyMap, NoWhere, EmptyMap, "none")
    /\ UNCHANGED <<impl, Schema, conn, constructed, batch, query, SchemaRef,
                   extendRelationshipsMap, ChangeConfig>>

NextAutosave ==
    \/ Construct
    \/ HybridInsert
    \/ HybridUpdate
    \/ HybridDelete
    \/ SaveNow
    \/ Close
    \/ InsertAfterClose
    \/ DebounceElapses
    \/ DebounceFires
    \/ IntervalFires

SpecAutosave == InitAutosave /\ [][NextAutosave]_vars

\* Time passes and a timer whose delay has elapsed runs its callback
\* unless it is cleared first; the interval keeps firing while it is set.
FairAutosave ==
    /\ SpecAutosave
    /\ WF_vars(DebounceElapses)
    /\ WF_vars(DebounceFires)
    /\ WF_vars(IntervalFires)

\* Hybrid mode with Batch: writes made by a callback that returns or throws.
\* The Batch is entered on a handle with no save pending and no disk copy;
\* Timer milliseconds may or may not have passed since LastSave.
InitHybridBatch == InitHybrid /\ conn.foreign_keys

HybridBatchBegin ==
    /\ ChangeConfig.timeouts = {}
    /\ ChangeConfig.disk = <<>>
    /\ ChangeConfig.ChangeCounter = 0
    /\ BatchBegin

NextHybridBatch ==
    \/ Construct
    \/ Tick
    \/ DebounceElapses
    \/ DebounceFires
    \/ HybridBatchBegin
    \/ BatchInsert
    \/ BatchUpdate
    \/ BatchDelete
    \/ BatchReturn
    \/ BatchThrow

SpecHybridBatch == InitHybridBatch /\ [][NextHybridBatch]_vars

TypeOK ==
    /\ impl \in Revisions
    /\ constructed \in BOOLEAN
    /\ conn.inTxn = batch.active
    /\ Len(Rows(conn)) <= MaxRows + 2

\* Reads, counts, updates and deletes with filters that hold an empty $or
\* or $and.
InitWhere ==
    /\ InitWith(Revisions, {SchemaTyped("INT")}, {NoTable})
    /\ conn.foreign_keys
    /\ query \in EmptyLogicFilters
    /\ SchemaRef = EmptyMap
    /\ ChangeConfig = NoChangeConfig

NextWhere ==
    \/ Construct
    \/ CallInsertRow
    \/ CallGet
    \/ CallCount
    \/ CallUpdateWhere
    \/ CallDeleteWhere

SpecWhere == InitWhere /\ [][NextWhere]_vars

\* Reads with $not filters on integer and Array columns.
InitNot ==
    /\ InitWith(Revisions, {SchemaTyped("INT"), SchemaTyped("ARRAY")}, {NoTable})
    /\ conn.foreign_keys
    /\ query \in NotFilters(Schema)
    /\ SchemaRef = EmptyMap
    /\ ChangeConfig = NoChangeConfig

SpecNot == InitNot /\ [][NextFilter]_vars

\* ------------------------------------------------------------------ claims
\* The statements dispatched by the last call.
CallLog == SubSeq(conn.log, last.logStart + 1, Len(conn.log))
Count(seq, x) == Cardinality({i \in 1..Len(seq) : seq[i] = x})
MigrateCalls == {"Construct", "MigrateSchema"}
PreTable == last.pre[Name]
NowTable == conn.tables[Name]
DeclaredColumns == ObjectKeys(Schema)

\* C2: when a step of the rebuild raises, MigrateSchema raises, the
\* transaction has been rolled back, and the physical table has the columns
\* and rows it had before the call, with no temporary table left behind.
C2_FailedRebuildLeavesTableUntouched ==
    last.op \in MigrateCalls =>
        /\ (last.fail # "none" /\ PreTable.exists) => last.raised
        /\ last.raised =>
             /\ conn.tables = last.pre
             /\ ~conn.tables[tempName].exists
             /\ ~conn.inTxn
             /\ Count(CallLog, "ROLLBACK") = 1

\* A rebuild that failed at the rename, after the copy and the drop ran.
C2_Witness ==
    /\ last.op \in MigrateCalls /\ last.raised /\ last.fail = "rename"
    /\ Len(PreTable.rows) > 0
    /\ Count(CallLog, "DROP TABLE") = 1

SchemaMatches ==
    /\ PreTable.exists
    /\ normalizedExistingNames(PreTable.cols, last.rename) = DeclaredColumns

\* C3 (as claimed): on an existing table whose column-name set matches the
\* declared one, MigrateSchema executes no CREATE TABLE, DROP TABLE or
\* ALTER TABLE.
C3_MatchingSchemaIsNoop ==
    (last.op \in MigrateCalls /\ SchemaMatches) =>
        /\ Count(CallLog, "CREATE TABLE") = 0
        /\ Count(CallLog, "DROP TABLE") = 0
        /\ Count(CallLog, "ALTER TABLE RENAME") = 0

\* C3 (amended): on an existing table whose column-name set matches the
\* declared one, a MigrateSchema that returns normally has still run the
\* rebuild: one CREATE TABLE, one DROP TABLE and one ALTER TABLE RENAME.
C3_MatchingSchemaIsRebuilt ==
    (last.op \in MigrateCalls /\ SchemaMatches /\ ~last.raised) =>
        /\ Count(CallLog, "CREATE TABLE") = 1
        /\ Count(CallLog, "DROP TABLE") = 1
        /\ Count(CallLog, "ALTER TABLE RENAME") = 1

C3_Witness ==
    /\ last.op = "MigrateSchema" /\ SchemaMatches /\ ~last.raised
    /\ last.rename = EmptyMap
    /\ Len(PreTable.rows) > 0

\* C4: a MigrateSchema run without rename map on a table whose columns are
\* the declared ones leaves it with the same rows and the same value in
\* every column; so does any number of such runs in a row.
C4_RepeatedMigrationKeepsRows ==
    (/\ last.op \in MigrateCalls /\ last.rename = EmptyMap
     /\ PreTable.exists /\ PreTable.cols = DeclaredColumns) =>
        /\ NowTable.exists
        /\ NowTable.cols = PreTable.cols
        /\ NowTable.rows = PreTable.rows

\* A second run in a row (the first is the constructor's) over stored rows.
C4_Witness ==
    /\ last.op = "MigrateSchema" /\ last.rename = EmptyMap /\ ~last.raised
    /\ PreTable.cols = DeclaredColumns
    /\ Len(NowTable.rows) = 2
    /\ Count(CallLog, "INSERT SELECT") = 1

\* C5: after a rebuild from physical columns P to declared columns D
\* (no rename map) the table has as many rows as before; in every row a
\* declared column that was in P keeps its value, a declared column that was
\* not in P holds the field's default (NULL without one), and the columns
\* of P outside D are gone.
C5_RebuildPreservesAndBackfills ==
    (/\ last.op \in MigrateCalls /\ last.rename = EmptyMap
     /\ PreTable.exists /\ ~last.raised) =>
        /\ Len(NowTable.rows) = Len(PreTable.rows)
        /\ NowTable.cols = DeclaredColumns
        /\ \A i \in 1..Len(NowTable.rows) :
             /\ DOMAIN NowTable.rows[i] = DeclaredColumns
             /\ \A col \in DeclaredColumns :
                  NowTable.rows[i][col] =
                     IF col \in PreTable.cols THEN PreTable.rows[i][col]
                     ELSE Schema[col].Default

\* The example of the specification: {A,B} with row (1,2) migrated to {A,C}
\* with C default 0 yields exactly one row A=1, C=0.
C5_Witness ==
    /\ last.op = "Construct" /\ ~last.raised
    /\ PreTable.cols = {"A", "B"}
    /\ PreTable.rows = <<[A |-> "1", B |-> "2"]>>
    /\ NowTable.rows = <<[A |-> "1", C |-> "0"]>>

\* C6: after every MigrateSchema call that returns normally the physical
\* table's column-name set is exactly the declared column-name set.
C6_ColumnsAreDeclaredAfterMigration ==
    (last.op \in MigrateCalls /\ ~last.raised) =>
        /\ NowTable.exists
        /\ NowTable.cols = DeclaredColumns

\* A rebuild with a rename map from columns that differ from the declared.
C6_Witness ==
    /\ last.op = "MigrateSchema" /\ ~last.raised
    /\ last.rename # EmptyMap
    /\ Len(NowTable.rows) > 0
    /\ NowTable.cols = DeclaredColumns

\* C7: whenever MigrateSchema finishes, whether it returns normally or
\* raises, foreign-key enforcement is enabled on the connection.
C7_ForeignKeysEnabledAfterMigration ==
    last.op \in MigrateCalls => conn.foreign_keys = TRUE

\* C1: if the callback of a Batch raises after any number of Insert, Update
\* and Delete calls, every table holds what it held before the Batch and the
\* error is raised to the caller; if it returns normally its writes are
\* committed by exactly one COMMIT.  InsertMany is a Batch of Inserts.
C1_BatchIsAtomic ==
    /\ last.op = "BatchThrow" =>
         /\ last.raised
         /\ conn.tables = last.pre
         /\ ~conn.inTxn
         /\ Count(CallLog, "COMMIT") = 0
    /\ (last.op = "BatchReturn" /\ ~last.raised) =>
         /\ conn.tables = last.at
         /\ ~conn.inTxn
         /\ Count(CallLog, "COMMIT") = 1
         /\ Count(CallLog, "ROLLBACK") = 0
    /\ last.op = "InsertMany" =>
         /\ ~conn.inTxn
         /\ IF last.raised
            THEN conn.tables = last.pre /\ Count(CallLog, "COMMIT") = 0
            ELSE /\ Count(CallLog, "COMMIT") = 1
                 /\ Len(Rows(conn)) = Len(last.pre[Name].rows) + 2

\* A callback that wrote to the table and then raised.
C1_Witness ==
    /\ last.op = "BatchThrow"
    /\ last.at # last.pre
    /\ Count(CallLog, "INSERT") + Count(CallLog, "UPDATE")
          + Count(CallLog, "DELETE") > 0
    /\ conn.tables = last.pre

\* A declared NOT NULL column that the inserted row omits or gives as
\* null / undefined.
InsertLacksNotNull ==
    \E key \in DeclaredColumns :
        /\ Schema[key].NotNull
        /\ \/ key \notin DOMAIN last.values
           \/ last.values[key] \in {NULL, UNDEFINED}

C9_UpdateRejectsNullIntoNotNull ==
    (/\ last.op = "Update"
     /\ \E key \in DOMAIN last.values :
           Schema[key].NotNull /\ last.values[key] = NULL) =>
        /\ last.raised
        /\ conn.tables = last.pre

\* A supplied value that the field's check predicate refuses or whose
\* runtime type is not the field's type.
SuppliesInvalidValue ==
    \E key \in DOMAIN last.values :
        /\ last.values[key] \notin {NULL, UNDEFINED}
        /\ \/ ~CheckPredicate(Schema[key].Check, last.values[key])
           \/ ~TypeChecker(last.values[key], Schema[key].Type)

\* C10: Insert or Update of a value that fails the field's check predicate
\* or type raises before any SQL statement is executed, and no row is
\* written or changed.
C10_InvalidValueRaisesBeforeSQL ==
    (last.op \in {"Insert", "Update"} /\ SuppliesInvalidValue) =>
        /\ last.raised
        /\ CallLog = <<>>
        /\ conn.tables = last.pre

\* A row satisfies a filter object when it satisfies every key of it: a
\* column key by the condition compiled for that key alone, $or by one of
\* its children, $and by all of them.
RECURSIVE Satisfies(_, _, _, _)
Satisfies(variant, schema, filter, row) ==
    \A i \in 1..Len(filter.e) :
        LET entry == filter.e[i]
            children == IF ArrayIsArray(entry) THEN entry.e ELSE <<entry>>
            w == buildWhereClause(variant, schema, Filter(<<entry>>))
        IN CASE entry.k = "$or" ->
                  \E j \in 1..Len(children) : Satisfies(variant, schema, children[j], row)
             [] entry.k = "$and" ->
                  \A j \in 1..Len(children) : Satisfies(variant, schema, children[j], row)
             [] OTHER -> Where3(schema, w.clause, w.params, row) = "T"

\* No $or / $and of the filter has an empty child.
RECURSIVE ChildrenHaveKeys(_)
ChildrenHaveKeys(filter) ==
    \A i \in 1..Len(filter.e) :
        LET entry == filter.e[i]
            children == IF ArrayIsArray(entry) THEN entry.e ELSE <<entry>>
        IN entry.k \in {"$or", "$and"} =>
             \A j \in 1..Len(children) :
                 children[j].e # <<>> /\ ChildrenHaveKeys(children[j])

Satisfying(rows) ==
    {i \in 1..Len(rows) : Satisfies(impl, Schema, last.filter, rows[i])}
Selected(rows) ==
    {i \in 1..Len(rows) : Where3(Schema, last.clause, last.params, rows[i]) = "T"}

\* C11: a Get that returns has selected exactly the rows that satisfy every
\* key of its filter object ($or: at least one child, $and: all children),
\* also when column keys stand next to an $or key.  (Stated for the filters
\* whose $or / $and children all have keys.)
C11_FilterMatchesIffEveryKeySatisfied ==
    (last.op = "Get" /\ ~last.raised /\ ChildrenHaveKeys(last.filter)) =>
        /\ Selected(Rows(conn)) = Satisfying(Rows(conn))
        /\ Len(last.out) = Cardinality(Satisfying(Rows(conn)))

\* The placeholders of a clause, left to right: the column and operator of
\* the condition each stands in and the literal it was written for.
RECURSIVE Placeholders(_)
Placeholders(clause) ==
    IF clause = <<>> THEN <<>>
    ELSE [i \in 1..Head(clause).n |->
            [col |-> Head(clause).col, op |-> Head(clause).op,
             lit |-> IF i <= Len(Head(clause).lit) THEN Head(clause).lit[i]
                     ELSE Scalar("", UNDEFINED)]]
         \o Placeholders(Tail(clause))

JsonExtractOps ==
    {"json_extract " \o o : o \in {"=", "<>", "<", "<=", ">", ">=", "LIKE", "BETWEEN"}}
JsonEachOps == {"json_each =", "json_each IN", "json_each NOT IN"}

\* The values a placeholder's literal is bound as: the column's inbound
\* format in a plain condition, JSON text (or the string itself) under
\* json_extract, the element form under json_each.
PlaceholderValues(variant, schema, ph) ==
    IF ph.op \in JsonExtractOps THEN {StringifyParam(ph.lit), JsValue(ph.lit)}
    ELSE IF ph.op \in JsonEachOps THEN {formatForJsonElement(ph.lit)}
    ELSE {ensureFormatted(variant, schema, ph.col, ph.lit)}

\* C12: the compiled clause of every structured filter has as many "?"
\* placeholders as the params array has values, and the i-th param is the
\* value of the literal the i-th placeholder was written for.
C12_ParamsMatchPlaceholders ==
    last.op = "Get" =>
        LET ph == Placeholders(last.clause)
        IN /\ Len(ph) = Len(last.params)
           /\ \A i \in 1..Len(ph) :
                i <= Len(last.params) =>
                  last.params[i] \in PlaceholderValues(impl, Schema, ph[i])

\* A nested filter whose clause has an OR and three placeholders bound to
\* different values.
C12_Witness ==
    /\ last.op = "Get" /\ ~last.raised
    /\ Len(last.params) >= 3
    /\ \E i \in 1..Len(last.clause) : last.clause[i].t = "OR"
    /\ \E i, j \in 1..Len(last.params) : last.params[i] # last.params[j]

\* The filter is {col: value} for a declared column.
IsColumnFilter(filter, value) ==
    /\ Len(filter.e) = 1
    /\ filter.e[1].k \in ObjectKeys(Schema)
    /\ Keyed("", filter.e[1]) = value

StoredForm(variant, schema, column, literal) ==
    Bind(applyFormatIn(variant, schema[column], JsValue(literal)))

\* The rows that hold, in the one column the filter {col: literal} names,
\* what Insert stores for that literal.
HoldingLiteral(rows, filter) ==
    {i \in 1..Len(rows) :
       rows[i][filter.e[1].k] = StoredForm(impl, Schema, filter.e[1].k, filter.e[1])}

IsLiteralFilter(filter) ==
    /\ Len(filter.e) = 1
    /\ filter.e[1].k \in ObjectKeys(Schema)
    /\ \/ filter.e[1].t = "scalar"
       \/ Keyed("", filter.e[1]) \in Literals

\* C17: every parameter is the column's inbound format of the filter
\* literal, and Get({c: v}) returns every row that Insert stored v in,
\* whatever the type of column c.
C17_ParamsAreFormattedAndInsertedValueIsFound ==
    last.op = "Get" =>
        /\ \A i \in 1..Len(last.params) :
             i <= Len(Placeholders(last.clause)) =>
               last.params[i] = ensureFormatted(impl, Schema,
                                                Placeholders(last.clause)[i].col,
                                                Placeholders(last.clause)[i].lit)
        /\ IsLiteralFilter(last.filter) =>
             /\ ~last.raised
             /\ \A i \in HoldingLiteral(Rows(conn), last.filter) :
                  \E j \in 1..Len(last.out) :
                      last.out[j] = mapOutRow(impl, Schema, Rows(conn)[i])

\* A column key of the filter carries `$between` with a value that is not a
\* 2-element array.
MalformedBetween(filter) ==
    \E i \in 1..Len(filter.e) :
       /\ filter.e[i].k \in ObjectKeys(Schema)
       /\ filter.e[i].t = "object"
       /\ \E j \in 1..Len(filter.e[i].e) :
            /\ filter.e[i].e[j].k = "$between"
            /\ ~(filter.e[i].e[j].t = "array" /\ Len(filter.e[i].e[j].e) = 2)

\* C18: a Get whose filter uses `$between` with a value that is not a
\* 2-element array raises, and no statement has been executed.
C18_MalformedBetweenRaises ==
    (last.op = "Get" /\ MalformedBetween(last.filter)) =>
        /\ last.raised
        /\ conn.log = <<>>

\* The outbound format of a field: schema.ts:468 is given the type name,
\* the later revisions the field.
outboundFormat(variant, field, value) ==
    IF variant = "OptimaTB" THEN applyFormatOutByName(field.Type, value)
    ELSE applyFormatOutByField(field, value)

\* C20: the outbound format of the inbound format of a value is the value,
\* null included, for every semantic type; and the row read back after an
\* Insert carries the values that were inserted.
C20_FormatRoundTrip ==
    (last.op = "Insert" /\ ~last.raised /\ DOMAIN last.values = ObjectKeys(Schema)) =>
        /\ \A c \in ObjectKeys(Schema) :
             outboundFormat(impl, Schema[c],
                            applyFormatIn(impl, Schema[c], last.values[c])) = last.values[c]
        /\ mapOutRow(impl, Schema, Rows(conn)[Len(Rows(conn))]) = last.values

\* C16: no Insert, Update or Delete performs a disk save before it
\* returns; the save a change gives rise to runs after the call.
C16_NoSaveBeforeReturn ==
    last.op \in {"Insert", "Update", "Delete"} => ~last.saved

\* The rows of the sibling whose referencing field equals the referenced
\* field of row r, as the sibling reads them.
RelatedRows(r) ==
    LET ref == SchemaRef[Sibling]["F"].Reference
        Related(s) == s["F"] = r[ref.Field]
        rows == SelectSeq(conn.tables[Sibling].rows, Related)
    IN [i \in 1..Len(rows) |-> mapOutRow(impl, SchemaRef[Sibling], rows[i])]

ExtendsSibling ==
    /\ last.op \in {"Get", "GetOne"} /\ ~last.raised
    /\ \E k \in 1..Len(last.Extend) : last.Extend[k] = Sibling
    /\ Sibling \in DOMAIN SchemaRef
    /\ SchemaRef[Sibling]["F"].Reference.TableName = Name

MissingRelations ==
    {last.Extend[k] : k \in {k \in 1..Len(last.Extend) :
                               last.Extend[k] \notin DOMAIN extendRelationships(SchemaRef)}}

\* C15: a Get or GetOne whose extend set names a table without a recorded
\* edge raises an error naming the table and the missing relation, whatever
\* the number of rows the filter matches.
C15_UnknownExtendRaises ==
    (last.op \in {"Get", "GetOne"} /\ MissingRelations # {}) =>
        /\ last.raised
        /\ last.error.table = Name
        /\ last.error.relation \in MissingRelations

\* A field of the declared tables carries a reference without the name of
\* its table.
ReferenceWithoutTableName ==
    \E t \in DOMAIN SchemaRef : \E col \in ObjectKeys(SchemaRef[t]) :
        /\ SchemaRef[t][col].Reference # NoReference
        /\ SchemaRef[t][col].Reference.TableName = UNDEFINED

\* C19: constructing the database with a field whose reference has no
\* target table name raises.
C19_ReferenceWithoutTableNameRaises ==
    (last.op = "Construct" /\ ReferenceWithoutTableName) => last.raised


\* ------------------------------------------------------- order of the rebuild
RECURSIVE Without(_, _)
Without(seq, S) ==
    IF seq = <<>> THEN <<>>
    ELSE IF Head(seq) \in S THEN Without(Tail(seq), S)
    ELSE <<Head(seq)>> \o Without(Tail(seq), S)

Pragmas == {"PRAGMA foreign_keys = ON", "PRAGMA foreign_keys = OFF"}
RebuildOrder == <<"BEGIN", "CREATE TABLE", "INSERT SELECT", "DROP TABLE",
                  "ALTER TABLE RENAME", "COMMIT">>

\* The last call was a MigrateSchema that entered the rebuild.
Rebuilt == last.op \in MigrateCalls /\ PreTable.exists

\* The statements of the rebuild other than the pragmas come in the order
\* of RebuildOrder; a rebuild that raises stops after the failing statement
\* and issues ROLLBACK.
InRebuildOrder ==
    LET st == Without(CallLog, Pragmas)
    IN IF last.raised
       THEN \E k \in 2..5 : st = SubSeq(RebuildOrder, 1, k) \o <<"ROLLBACK">>
       ELSE st = RebuildOrder

\* C21 (as claimed): the statements of every rebuild are issued in the
\* order BEGIN, create, copy, drop, rename, COMMIT, and no statement of the
\* rebuild runs outside the transaction: the first is BEGIN and the last is
\* the COMMIT or the ROLLBACK.
C21_NoStatementOutsideTransaction ==
    Rebuilt =>
        /\ InRebuildOrder
        /\ CallLog[1] = "BEGIN"
        /\ CallLog[Len(CallLog)] \in {"COMMIT", "ROLLBACK"}

\* C21 (amended): the statements of every rebuild are issued in the order
\* BEGIN, create, copy, drop, rename, COMMIT; every statement that creates,
\* fills, drops or renames a table lies between the BEGIN and the COMMIT or
\* ROLLBACK; the only statement after the end of the transaction is the
\* PRAGMA foreign_keys = ON of the catch block, issued after ROLLBACK.
C21_RebuildOrder ==
    Rebuilt =>
        /\ InRebuildOrder
        /\ CallLog[1] = "BEGIN"
        /\ ~conn.inTxn
        /\ IF last.raised
           THEN SubSeq(CallLog, Len(CallLog) - 1, Len(CallLog))
                   = <<"ROLLBACK", "PRAGMA foreign_keys = ON">>
           ELSE CallLog[Len(CallLog)] = "COMMIT"

\* A rebuild with a rename map that copied two rows and committed.
C21_Witness ==
    /\ Rebuilt /\ last.op = "MigrateSchema" /\ last.rename # EmptyMap
    /\ Len(PreTable.rows) = 2
    /\ Without(CallLog, Pragmas) = RebuildOrder


\* ------------------------------------------------------------------ renames
\* The last call was a MigrateSchema with a rename map old -> new, old a
\* physical column and new a declared column, that returned normally.
Renamed(old, new) ==
    /\ last.op = "MigrateSchema" /\ ~last.raised
    /\ old \in DOMAIN last.rename /\ last.rename[old] = new
    /\ PreTable.exists /\ old \in PreTable.cols /\ new \in DeclaredColumns

\* Every row holds in new the value it held in old.
ValuesMoved(old, new) ==
    /\ Len(NowTable.rows) = Len(PreTable.rows)
    /\ \A i \in 1..Len(NowTable.rows) : NowTable.rows[i][new] = PreTable.rows[i][old]

IsNotFilter(filter) ==
    /\ Len(filter.e) = 1
    /\ filter.e[1].k \in ObjectKeys(Schema)
    /\ filter.e[1].t = "object" /\ Len(filter.e[1].e) = 1
    /\ filter.e[1].e[1].k = "$not"
NotColumn == last.filter.e[1].k
NotOperand == Keyed("", last.filter.e[1].e[1])

\* The clause compiled for {col: X}, and whether it selects the row.
OperandClause == buildWhereClause(impl, Schema, Filter(<<Keyed(NotColumn, NotOperand)>>))
MatchesOperand(row) ==
    Where3(Schema, OperandClause.clause, OperandClause.params, row) = "T"

\* Among the rows whose column is not null, {col: {$not: X}} selects the
\* rows that {col: X} does not select.
NotIsComplement ==
    \A i \in 1..Len(Rows(conn)) :
        Rows(conn)[i][NotColumn] # NULL =>
           (i \in Selected(Rows(conn)) <=> ~MatchesOperand(Rows(conn)[i]))

\* C23: for every column and every row whose value in that column is not
\* null, the row matches {col: {$not: X}} iff it does not match {col: X},
\* for X a scalar, a list (the empty list included) or an operator object.
C23_NotIsComplement ==
    (last.op = "Get" /\ ~last.raised /\ IsNotFilter(last.filter) /\ ~OperandClause.raised) =>
        NotIsComplement


\* ------------------------------------------------------ empty $or and $and
IsEmptyLogic(entry) ==
    entry.k \in {"$or", "$and"} /\ ArrayIsArray(entry) /\ entry.e = <<>>
RECURSIVE WithoutEmptyLogic(_)
WithoutEmptyLogic(entries) ==
    IF entries = <<>> THEN <<>>
    ELSE IF IsEmptyLogic(Head(entries)) THEN WithoutEmptyLogic(Tail(entries))
    ELSE <<Head(entries)>> \o WithoutEmptyLogic(Tail(entries))
HasEmptyLogic(filter) == \E i \in 1..Len(filter.e) : IsEmptyLogic(filter.e[i])
OnlyEmptyLogic(filter) == HasEmptyLogic(filter) /\ WithoutEmptyLogic(filter.e) = <<>>
FilterCalls == {"Get", "Count", "Update", "Delete"}

\* C24: an $or or $and with an empty children list contributes no
\* predicate: the clause is the one compiled without that key.  When it is
\* the only key the clause is empty, so Get returns and Count counts every
\* row, Delete removes every row and Update changes every row.
C24_EmptyLogicContributesNothing ==
    (last.op \in FilterCalls /\ HasEmptyLogic(last.filter)) =>
        /\ ~last.raised
        /\ last.clause =
              buildWhereClause(impl, Schema, Filter(WithoutEmptyLogic(last.filter.e))).clause
        /\ OnlyEmptyLogic(last.filter) =>
              /\ last.clause = <<>>
              /\ last.op = "Get" => Len(last.out) = Len(Rows(conn))
              /\ last.op = "Count" => last.count = Len(Rows(conn))
              /\ last.op = "Delete" => Rows(conn) = <<>>
              /\ last.op = "Update" =>
                    /\ Len(Rows(conn)) = Len(PreTable.rows)
                    /\ \A i \in 1..Len(Rows(conn)) :
                          \A col \in DOMAIN last.values :
                              Rows(conn)[i][col] = last.values[col]

\* Delete({$or: []}) on a table of two rows removed both.
C24_Witness ==
    /\ last.op = "Delete" /\ ~last.raised
    /\ last.filter = Filter(<<ArrayOf("$or", <<>>)>>)
    /\ Len(PreTable.rows) = 2
    /\ Rows(conn) = <<>>

\* ------------------------------------------------- notifications and Batch
Writes == {"Insert", "Update", "Delete"}

\* A write that raises leaves the change bookkeeping as it was.
RaisedWriteNotifiesNothing ==
    (last' # last /\ last'.op \in Writes /\ last'.raised) => ChangeConfig' = ChangeConfig

\* After a Batch that rolled back, no debounce timer is armed that was not
\* armed when the Batch was entered, and the disk copy and the change
\* counter are what they were.
RolledBackBatchNotifiesNothing ==
    (last.op = "BatchThrow" /\ last.at # last.pre) =>
        /\ ChangeConfig.timeouts = batch.cfg.timeouts
        /\ ChangeConfig.disk = batch.cfg.disk
        /\ ChangeConfig.ChangeCounter = batch.cfg.ChangeCounter

\* C25: a change notification (scheduleSave, or the Change event) is
\* emitted only for writes that end up committed: a write that raises
\* emits none, and a Batch that rolls back leaves no save scheduled or
\* triggered by the writes it undid.
C25_OnlyCommittedWritesNotify ==
    [][RaisedWriteNotifiesNothing]_vars /\ []RolledBackBatchNotifiesNothing

\* The first half alone, as a property of every step.
EveryRaisedWriteNotifiesNothing == [][RaisedWriteNotifiesNothing]_vars

\* ------------------------------------------------------------ nested Batch
\* The Batch ends in the step that follows a Batch call of its callback.
EndsAfterNested == last.op = "Batch" /\ batch.active /\ ~batch'.active

\* C26 as stated: a Batch whose callback invoked Batch ends rolled back,
\* with no open transaction, raising the error of the inner BEGIN.
C26_NestedBatchAlwaysRollsBack ==
    [][EndsAfterNested =>
          /\ last'.op = "BatchThrow" /\ last'.thrown = BeginError
          /\ conn'.tables = last'.pre
          /\ ~conn'.inTxn]_vars

\* C26: a Batch invoked inside another Batch's callback raises the error
\* of its failed BEGIN and changes nothing; when that error leaves the
\* outer callback, every write of the outer callback is rolled back by one
\* ROLLBACK, no transaction is left open, and the caller of the outer
\* Batch receives that same error.
C26_NestedBatchRaises ==
    /\ last.op = "Batch" =>
         /\ last.raised /\ last.thrown = BeginError
         /\ conn.tables = last.at
         /\ conn.inTxn /\ batch.active
    /\ (last.op = "BatchThrow" /\ last.thrown = BeginError) =>
         /\ last.raised
         /\ conn.tables = last.pre
         /\ ~conn.inTxn
         /\ Count(CallLog, "ROLLBACK") = 1
         /\ Count(CallLog, "COMMIT") = 0
         /\ Count(CallLog, "BEGIN") >= 2

\* The callback inserted a row, called Batch, and let the error escape.
C26_Witness ==
    /\ last.op = "BatchThrow" /\ last.thrown = BeginError
    /\ last.at # last.pre
    /\ Count(CallLog, "INSERT") > 0
    /\ conn.tables = last.pre

\* ----------------------------------------------------------- change counter
CountedWrite ==
    /\ ChangeConfig.isHybrid /\ impl # "OptimaTable"
    /\ last.op \in Writes /\ ~last.raised

Autosaving == ChangeConfig.isHybrid /\ ChangeConfig.AutosaveEnabled

\* C28: in hybrid mode with autosave enabled, every Insert, Update or
\* Delete that returns normally is eventually followed by a disk save
\* attempt, whatever the delays and whatever writes follow.
C28_EveryWriteIsEventuallySaved ==
    (Autosaving /\ ChangeConfig.unsaved) ~> ~ChangeConfig.unsaved

\* The same with an interval timer running.
SavedWhenIntervalRuns ==
    (Autosaving /\ ChangeConfig.AutosaveIntervalMs > 0 /\ ChangeConfig.unsaved)
        ~> ~ChangeConfig.unsaved

\* C29: at most one debounce timer is pending at any time; once Close was
\* called no debounce or interval timer is pending and no timer callback
\* can run; outside hybrid mode no timer is ever set and nothing is written
\* to disk by scheduleSave, SaveNow or Close.
C29_TimersAreBounded ==
    /\ Cardinality(ChangeConfig.timeouts) <= 1
    /\ ChangeConfig.timeouts \subseteq {ChangeConfig.SaveDebounceTimer}
    /\ ChangeConfig.closed =>
         /\ ChangeConfig.timeouts = {}
         /\ ~ChangeConfig.SaveIntervalTimer
         /\ ~ENABLED DebounceFires
         /\ ~ENABLED IntervalFires
    /\ ~ChangeConfig.isHybrid =>
         /\ ChangeConfig.timeouts = {}
         /\ ~ChangeConfig.SaveIntervalTimer
         /\ ChangeConfig.disk = <<>>

\* A second Insert replaced the pending debounce timer of the first: no
\* save has run in between, and one timer is pending.
C29_Witness ==
    /\ Autosaving
    /\ last.op = "Insert" /\ ~last.raised
    /\ Len(Rows(conn)) = 2
    /\ ChangeConfig.disk = <<>>
    /\ Cardinality(ChangeConfig.timeouts) = 1
    /\ ~ChangeConfig.closed

\* Close was called while both timers were running.
ClosedWhileArmed ==
    /\ Autosaving /\ ChangeConfig.closed
    /\ last.op = "Close" /\ ~last.raised
    /\ ChangeConfig.disk # <<>>

\* Rows were written in memory mode with autosave enabled, and SaveNow called.
SaveNowOutsideHybrid ==
    /\ ~ChangeConfig.isHybrid /\ ChangeConfig.AutosaveEnabled
    /\ last.op = "SaveNow"
    /\ Rows(conn) # <<>>

\* ------------------------------------------------------------ reverse edges
\* The field of a sibling declaration that references T and is declared
\* last among those that do.
DeclaredAt(col) == CHOOSE i \in 1..Len(DeclarationOrder) : DeclarationOrder[i] = col
LastReferring(tableSchema) ==
    CHOOSE col \in ReferringFields(tableSchema, Name) :
        \A d \in ReferringFields(tableSchema, Name) : DeclaredAt(d) <= DeclaredAt(col)

\* The rows of the sibling whose field col equals field K of row r.
RelatedBy(col, K, r) ==
    LET Related(s) == s[col] = r[K]
        rows == SelectSeq(conn.tables[Sibling].rows, Related)
    IN [i \in 1..Len(rows) |-> mapOutRow(impl, SchemaRef[Sibling], rows[i])]

\* The map holds one edge per sibling that references T, the edge of the
\* field declared last, and none for T.
EdgesAreLastFields ==
    constructed =>
        /\ Name \notin DOMAIN extendRelationshipsMap
        /\ DOMAIN extendRelationshipsMap =
              {t \in DOMAIN SchemaRef \ {Name} : ReferringFields(SchemaRef[t], Name) # {}}
        /\ \A t \in DOMAIN extendRelationshipsMap :
              LET col == LastReferring(SchemaRef[t])
              IN extendRelationshipsMap[t] =
                   [ExternalField |-> col,
                    InternalField |-> SchemaRef[t][col].Reference.Field,
                    Type |-> SchemaRef[t][col].Reference.Type]

\* A read extended with the sibling attaches the rows related through the
\* field declared last.
ExtendUsesLastField ==
    (/\ last.op = "Get" /\ ~last.raised
     /\ \E k \in 1..Len(last.Extend) : last.Extend[k] = Sibling) =>
        LET col == LastReferring(SchemaRef[Sibling])
            ref == SchemaRef[Sibling][col].Reference
        IN \A i \in 1..Len(last.out) :
             last.ext[i].rows =
                IF ref.Type = "Many" THEN RelatedBy(col, ref.Field, last.out[i])
                ELSE FirstRow(RelatedBy(col, ref.Field, last.out[i]))

\* No step taken on a constructed table changes the map.
EdgesAreKept ==
    [][constructed => extendRelationshipsMap' = extendRelationshipsMap]_vars

\* C30: each table records at most one reverse edge per sibling table and
\* none to itself; when several fields of a sibling reference the table,
\* the edge is that of the field declared last and extend follows it; the
\* map is filled by the table initialization and after any Get, Insert,
\* Update, Delete or MigrateSchema it is still what the initialization
\* made it.
C30_OneEdgePerSibling ==
    /\ EdgesAreLastFields
    /\ ExtendUsesLastField
    /\ (constructed /\ last.op \in {"Get", "Insert", "InsertSibling", "Update",
                                     "Delete", "MigrateSchema"}) =>
          extendRelationshipsMap = extendRelationships(SchemaRef)

\* Both F and G of the sibling reference T, T references itself, and a
\* Get extended with the sibling returned a row with related rows.
C30_Witness ==
    /\ last.op = "Get" /\ ~last.raised
    /\ last.Extend = <<Sibling>>
    /\ ReferringFields(SchemaRef[Sibling], Name) = {"F", "G"}
    /\ ReferringFields(SchemaRef[Name], Name) # {}
    /\ \E i \in 1..Len(last.out) :
          /\ last.ext[i].rows # <<>>
          /\ RelatedBy("F", "A", last.out[i]) # RelatedBy("G", "A", last.out[i])

====
